---------------------------- MODULE Spec2Model ----------------------------
(***************************************************************************)
(* PureMVC Go Standard framework: the View (observer lists, mediators) and *)
(* the Controller (command map), as one goroutine drives them.  The        *)
(* goroutine's call stack is explicit, so that an Observer callback, a     *)
(* mediator's HandleNotification or a command's Execute can call back into *)
(* the View and the Controller while a broadcast is in flight, and every   *)
(* sync.RWMutex of the two structs is explicit, so that a re-entrant call  *)
(* that needs a lock its own goroutine already holds is seen to block.     *)
(***************************************************************************)
EXTENDS Naturals, Sequences, FiniteSets, TLC

(***************************************************************************)
(* Bounds of the model.                                                    *)
(***************************************************************************)
\* calls made in one behaviour at top level, by the Notify function of a raw
\* Observer or by a command's Execute
MaxCalls == 5
\* frames on the goroutine's call stack
MaxDepth == 4

(***************************************************************************)
(* The collaborators the framework is driven with.                         *)
(***************************************************************************)
\* notification names
Names == {"X", "Y"}
\* contexts of Observers registered directly through RegisterObserver
RawContexts == {"o1", "o2"}
\* names raw Observers are registered for
RawNames == {"X"}
\* mediator instances; each is its own notifyContext
Mediators == {"m1", "m2"}
\* command factories
Factories == {"f1", "f2"}
\* the Controller, the notifyContext of the Observers it registers
ControllerContext == "Controller"

\* a second instance that has the name of "m1"
SameNameMediators == {"m1", "m3"}

\* IMediator.GetMediatorName
GetMediatorName(m) == IF m \in SameNameMediators THEN "Mediator6/1" ELSE "Mediator6/2"
MediatorNames == {GetMediatorName(m) : m \in Mediators}

\* IMediator.ListNotificationInterests; no mediator lists a name twice
ListNotificationInterests(m) == IF m \in SameNameMediators THEN <<"X">> ELSE <<"X", "Y">>

(***************************************************************************)
(* sync.RWMutex, as far as one goroutine can tell: Lock waits until no     *)
(* reader and no writer holds the mutex, RLock until no writer holds it.   *)
(* A goroutine that itself holds what Lock waits for waits forever.        *)
(***************************************************************************)
Unlocked == [w |-> FALSE, r |-> 0]
CanLock(mu) == ~mu.w /\ mu.r = 0
CanRLock(mu) == ~mu.w
Lock(mu) == [mu EXCEPT !.w = TRUE]
Unlock(mu) == [mu EXCEPT !.w = FALSE]
RLock(mu) == [mu EXCEPT !.r = @ + 1]
RUnlock(mu) == [mu EXCEPT !.r = @ - 1]

(***************************************************************************)
(* Observer.go                                                             *)
(***************************************************************************)
\* &observer.Observer{Notify: ..., Context: ...}
Observer(notify, context) == [Notify |-> notify, Context |-> context]
\* Observer.CompareNotifyContext
CompareNotifyContext(observer, object) == object = observer.Context

\* the Observer RegisterMediator creates for a mediator
MediatorObserver(m) == Observer("HandleNotification", m)
\* the Observer RegisterCommand creates
ControllerObserver == Observer("ExecuteCommand", ControllerContext)
\* an Observer a caller creates and registers itself
RawObserver(o) == Observer("NotifyMethod", o)

(***************************************************************************)
(* Results of a call: the structs as the call leaves them, the mutex the   *)
(* goroutine is left waiting for ("none" when the call returned), and the  *)
(* RegisterObserver/RemoveObserver calls it made (list before and after).  *)
(***************************************************************************)
NoLock == "none"
\* a nil interface value, a key absent from a map
Nil == "nil"
ViewResult(v, blocked, trace) == [view |-> v, blocked |-> blocked, trace |-> trace]
\* the list stored under a key, <<>> for a key that is absent (a nil slice)
ListOf(om, name) == IF name \in DOMAIN om THEN om[name] ELSE <<>>
ObserverCall(op, name, context, pre, post) == [op |-> op, name |-> name, context |-> context, pre |-> pre, post |-> post]

(***************************************************************************)
(* View.go                                                                 *)
(***************************************************************************)
\* View.InitializeView
InitializeView == [mediatorMap |-> <<>>, observerMap |-> <<>>, mediatorMapMutex |-> Unlocked, observerMapMutex |-> Unlocked]

\* the map update of View.RegisterObserver
AppendObserverLost(om, notificationName, observer) ==
    IF notificationName \in DOMAIN om
    THEN om
    ELSE om @@ (notificationName :> <<observer>>)
AppendObserverFront(om, notificationName, observer) ==
    IF notificationName \in DOMAIN om
    THEN [om EXCEPT ![notificationName] = <<observer>> \o @]
    ELSE om @@ (notificationName :> <<observer>>)
AppendObserver(om, notificationName, observer) ==
    IF notificationName \in DOMAIN om
    THEN [om EXCEPT ![notificationName] = Append(@, observer)]
    ELSE om @@ (notificationName :> <<observer>>)

\* View.RegisterObserver
RegisterObserver(v, notificationName, observer) ==
    IF ~CanLock(v.observerMapMutex)
    THEN ViewResult(v, "observerMapMutex", <<>>)
    ELSE LET locked == [v EXCEPT !.observerMapMutex = Lock(@)]
             stored == [locked EXCEPT !.observerMap = AppendObserver(@, notificationName, observer)]
             call == ObserverCall("RegisterObserver", notificationName, observer.Context, ListOf(v.observerMap, notificationName), ListOf(stored.observerMap, notificationName))
         IN  ViewResult([stored EXCEPT !.observerMapMutex = Unlock(@)], NoLock, <<call>>)

\* index of the first Observer of the list whose context is notifyContext, 0 if none
RECURSIVE FindObserver(_, _, _)
FindObserver(observers, notifyContext, index) ==
    IF index > Len(observers) THEN 0
    ELSE IF CompareNotifyContext(observers[index], notifyContext) THEN index
    ELSE FindObserver(observers, notifyContext, index + 1)

\* append(observers[:index], observers[index+1:]...): the slice it returns
SpliceResult(observers, index) == SubSeq(observers, 1, index - 1) \o SubSeq(observers, index + 1, Len(observers))
\* append(observers[:index], observers[index+1:]...): what it leaves in the backing
\* array of observers, read through a slice header that still has the old length
SpliceBacking(observers, index) == SpliceResult(observers, index) \o <<observers[Len(observers)]>>

\* the map update of View.RemoveObserver: the splice is assigned to the local
\* variable observers only, the map keeps the slice header it had
RemoveFromMapSplicesOnMiss(om, notificationName, notifyContext) ==
    LET observers == ListOf(om, notificationName)
        found == FindObserver(observers, notifyContext, 1)
        index == IF found = 0 THEN Len(observers) ELSE found
        local == IF index = 0 THEN observers ELSE SpliceResult(observers, index)
        backing == IF index = 0 THEN observers ELSE SpliceBacking(observers, index)
    IN  IF Len(local) = 0
        THEN [k \in DOMAIN om \ {notificationName} |-> om[k]]
        ELSE [om EXCEPT ![notificationName] = backing]
RemoveFromMap(om, notificationName, notifyContext) ==
    LET observers == ListOf(om, notificationName)
        index == FindObserver(observers, notifyContext, 1)
        local == IF index = 0 THEN observers ELSE SpliceResult(observers, index)
        backing == IF index = 0 THEN observers ELSE SpliceBacking(observers, index)
    IN  IF Len(local) = 0
        THEN [k \in DOMAIN om \ {notificationName} |-> om[k]]
        ELSE [om EXCEPT ![notificationName] = backing]

\* View.RemoveObserver
RemoveObserver(v, notificationName, notifyContext) ==
    IF ~CanLock(v.observerMapMutex)
    THEN ViewResult(v, "observerMapMutex", <<>>)
    ELSE LET locked == [v EXCEPT !.observerMapMutex = Lock(@)]
             stored == [locked EXCEPT !.observerMap = RemoveFromMap(@, notificationName, notifyContext)]
             call == ObserverCall("RemoveObserver", notificationName, notifyContext, ListOf(v.observerMap, notificationName), ListOf(stored.observerMap, notificationName))
         IN  ViewResult([stored EXCEPT !.observerMapMutex = Unlock(@)], NoLock, <<call>>)

\* mediator.OnRegister() and mediator.OnRemove(), as entries of the calls a call made
\* a lifecycle hook of a mediator is called; "stored": the mediator map holds
\* the mediator's name at that moment
HookCall(hook, mediator, v) ==
    [op |-> hook, name |-> GetMediatorName(mediator), context |-> mediator, pre |-> <<>>, post |-> <<>>,
     stored |-> GetMediatorName(mediator) \in DOMAIN v.mediatorMap]

\* the loop of View.RegisterMediator over the mediator's interests
RECURSIVE RegisterInterests(_, _, _, _)
RegisterInterests(v, interests, observer, trace) ==
    IF interests = <<>> THEN ViewResult(v, NoLock, trace)
    ELSE LET r == RegisterObserver(v, Head(interests), observer)
         IN  IF r.blocked # NoLock THEN ViewResult(r.view, r.blocked, trace)
             ELSE RegisterInterests(r.view, Tail(interests), observer, trace \o r.trace)

\* View.RegisterMediator, with a mediator whose OnRegister hook does nothing.
\* On every return the deferred Unlock runs; a goroutine left waiting inside
\* RegisterObserver still holds mediatorMapMutex.
RegisterMediator(v, mediator) ==
    IF ~CanLock(v.mediatorMapMutex)
    THEN ViewResult(v, "mediatorMapMutex", <<>>)
    ELSE LET locked == [v EXCEPT !.mediatorMapMutex = Lock(@)]
         IN  IF GetMediatorName(mediator) \in DOMAIN locked.mediatorMap
             THEN ViewResult([locked EXCEPT !.mediatorMapMutex = Unlock(@)], NoLock, <<>>)
             ELSE LET stored == [locked EXCEPT !.mediatorMap = @ @@ (GetMediatorName(mediator) :> mediator)]
                      r == RegisterInterests(stored, ListNotificationInterests(mediator), MediatorObserver(mediator), <<>>)
                  IN  IF r.blocked # NoLock THEN r
                      ELSE ViewResult([r.view EXCEPT !.mediatorMapMutex = Unlock(@)], NoLock, r.trace \o <<HookCall("OnRegister", mediator, r.view)>>)

\* the loop of View.RemoveMediator over the mediator's interests
RECURSIVE RemoveInterests(_, _, _, _)
RemoveInterests(v, interests, mediator, trace) ==
    IF interests = <<>> THEN ViewResult(v, NoLock, trace)
    ELSE LET r == RemoveObserver(v, Head(interests), mediator)
         IN  IF r.blocked # NoLock THEN ViewResult(r.view, r.blocked, trace)
             ELSE RemoveInterests(r.view, Tail(interests), mediator, trace \o r.trace)

\* what View.RemoveMediator leaves and returns
MediatorResult(v, blocked, trace, mediator) == [view |-> v, blocked |-> blocked, trace |-> trace, mediator |-> mediator]
\* delete(self.mediatorMap, mediatorName)
DeleteMediatorNot(mediatorMap, mediatorName) == mediatorMap
DeleteMediator(mediatorMap, mediatorName) == [k \in DOMAIN mediatorMap \ {mediatorName} |-> mediatorMap[k]]

\* View.RemoveMediator, with a mediator whose OnRemove hook does nothing
RemoveMediator(v, mediatorName) ==
    IF ~CanLock(v.mediatorMapMutex)
    THEN MediatorResult(v, "mediatorMapMutex", <<>>, Nil)
    ELSE LET locked == [v EXCEPT !.mediatorMapMutex = Lock(@)]
         IN  IF mediatorName \notin DOMAIN locked.mediatorMap
             THEN MediatorResult([locked EXCEPT !.mediatorMapMutex = Unlock(@)], NoLock, <<>>, Nil)
             ELSE LET mediator == locked.mediatorMap[mediatorName]
                      r == RemoveInterests(locked, ListNotificationInterests(mediator), mediator, <<>>)
                      deleted == [r.view EXCEPT !.mediatorMap = DeleteMediator(@, mediatorName)]
                  IN  IF r.blocked # NoLock THEN MediatorResult(r.view, r.blocked, r.trace, Nil)
                      ELSE MediatorResult([deleted EXCEPT !.mediatorMapMutex = Unlock(@)], NoLock,
                                          r.trace \o <<HookCall("OnRemove", mediator, deleted)>>, mediator)

\* View.RetrieveMediator and View.HasMediator: what they return (they leave the
\* View as it is; HasMediator reads the map after its RUnlock)
RetrieveMediator(v, mediatorName) == IF mediatorName \in DOMAIN v.mediatorMap THEN v.mediatorMap[mediatorName] ELSE Nil
HasMediator(v, mediatorName) == RetrieveMediator(v, mediatorName) # Nil

\* make([]interfaces.IObserver, len(observersRef)) and copy(observers, observersRef)
CopyObserversShort(observersRef) == SubSeq(observersRef, 1, Len(observersRef) - 1)
CopyObservers(observersRef) == [i \in 1..Len(observersRef) |-> observersRef[i]]

\* the working array View.NotifyObservers builds under the read lock
WorkingArray(v, name) ==
    IF name \in DOMAIN v.observerMap THEN CopyObservers(v.observerMap[name]) ELSE <<>>

\* the RUnlock of View.NotifyObservers, before the loop over the working array
NotifyObserversKeepRLock(mu) == mu
NotifyObserversRUnlock(mu) == RUnlock(mu)

\* View.NotifyObservers up to its loop: the working array in "observers"
NotifyObserversBegin(v, name) ==
    IF ~CanRLock(v.observerMapMutex)
    THEN [view |-> v, blocked |-> "observerMapMutex", observers |-> <<>>]
    ELSE LET locked == [v EXCEPT !.observerMapMutex = RLock(@)]
         IN  [view |-> [locked EXCEPT !.observerMapMutex = NotifyObserversRUnlock(@)], blocked |-> NoLock, observers |-> WorkingArray(locked, name)]

(***************************************************************************)
(* Controller.go                                                           *)
(***************************************************************************)
\* Controller.InitializeController (the View is the variable view)
InitializeController == [commandMap |-> <<>>, commandMapMutex |-> Unlocked]

ControllerResult(c, v, blocked, trace) == [controller |-> c, view |-> v, blocked |-> blocked, trace |-> trace]

\* Controller.RegisterCommand
RegisterCommand(c, v, notificationName, factory) ==
    IF ~CanLock(c.commandMapMutex)
    THEN ControllerResult(c, v, "commandMapMutex", <<>>)
    ELSE LET locked == [c EXCEPT !.commandMapMutex = Lock(@)]
             r == IF notificationName \notin DOMAIN locked.commandMap
                  THEN RegisterObserver(v, notificationName, ControllerObserver)
                  ELSE ViewResult(v, NoLock, <<>>)
             stored == [locked EXCEPT !.commandMap = [k \in DOMAIN @ \cup {notificationName} |-> IF k = notificationName THEN factory ELSE @[k]]]
         IN  IF r.blocked # NoLock THEN ControllerResult(locked, r.view, r.blocked, <<>>)
             ELSE ControllerResult([stored EXCEPT !.commandMapMutex = Unlock(@)], r.view, NoLock, r.trace)

\* delete(self.commandMap, notificationName)
DeleteCommandNot(commandMap, notificationName) == commandMap
DeleteCommand(commandMap, notificationName) == [k \in DOMAIN commandMap \ {notificationName} |-> commandMap[k]]

\* Controller.RemoveCommand
RemoveCommand(c, v, notificationName) ==
    IF ~CanLock(c.commandMapMutex)
    THEN ControllerResult(c, v, "commandMapMutex", <<>>)
    ELSE LET locked == [c EXCEPT !.commandMapMutex = Lock(@)]
         IN  IF notificationName \notin DOMAIN locked.commandMap
             THEN ControllerResult([locked EXCEPT !.commandMapMutex = Unlock(@)], v, NoLock, <<>>)
             ELSE LET r == RemoveObserver(v, notificationName, ControllerContext)
                      deleted == [locked EXCEPT !.commandMap = DeleteCommand(@, notificationName)]
                  IN  IF r.blocked # NoLock THEN ControllerResult(locked, r.view, r.blocked, <<>>)
                      ELSE ControllerResult([deleted EXCEPT !.commandMapMutex = Unlock(@)], r.view, NoLock, r.trace)

\* Controller.HasCommand, read by a goroutine that can take the read lock
HasCommandInverted(c, notificationName) == notificationName \notin DOMAIN c.commandMap
HasCommand(c, notificationName) == notificationName \in DOMAIN c.commandMap

\* Controller.ExecuteCommand up to the call of the handler: "factory" is the
\* factory whose handler runs under the read lock, "none" when the call returned
NoFactory == "none"
\* commandInstance := factory()
NewHandler(factory) == [factory |-> factory, initialized |-> FALSE]
\* commandInstance.InitializeNotifier()
InitializeHandlerNot(handler) == handler
InitializeHandler(handler) == [handler EXCEPT !.initialized = TRUE]
\* "handlers": the handlers the call has created, the last of which it executes
ExecuteCommandBegin(c, name) ==
    IF ~CanRLock(c.commandMapMutex)
    THEN [controller |-> c, blocked |-> "commandMapMutex", factory |-> NoFactory, handlers |-> <<>>]
    ELSE LET locked == [c EXCEPT !.commandMapMutex = RLock(@)]
         IN  IF name \notin DOMAIN locked.commandMap
             THEN [controller |-> [locked EXCEPT !.commandMapMutex = RUnlock(@)], blocked |-> NoLock, factory |-> NoFactory, handlers |-> <<>>]
             ELSE [controller |-> locked, blocked |-> NoLock, factory |-> locked.commandMap[name],
                   handlers |-> <<InitializeHandler(NewHandler(locked.commandMap[name]))>>]

\* the deferred RUnlock of Controller.ExecuteCommand, when the handler has returned
ExecuteCommandEnd(c) == [c EXCEPT !.commandMapMutex = RUnlock(@)]

(***************************************************************************)
(* Model.go                                                                *)
(***************************************************************************)
\* Model.InitializeModel
InitializeModel == [proxyMap |-> <<>>, proxyMapMutex |-> Unlocked]

\* the proxies of the callers: p1 and p3 have the same name
Proxies == {"p1", "p2", "p3"}
GetProxyName(proxy) == IF proxy \in {"p1", "p3"} THEN "Proxy/1" ELSE "Proxy/2"
ProxyNames == {GetProxyName(proxy) : proxy \in Proxies}

\* what a call of the Model leaves and returns
ModelResult(md, blocked, trace, proxy) == [model |-> md, blocked |-> blocked, trace |-> trace, proxy |-> proxy]
\* Model.RetrieveProxy and Model.HasProxy: what they return under the read lock
\* (they leave the Model as it is)
RetrieveProxy(md, proxyName) == IF proxyName \in DOMAIN md.proxyMap THEN md.proxyMap[proxyName] ELSE Nil
HasProxy(md, proxyName) == RetrieveProxy(md, proxyName) # Nil
\* history: a method of a proxy is called; "stored": what the proxy map holds
\* under the proxy's name at that moment
ProxyCall(method, proxy, md) ==
    [op |-> method, name |-> GetProxyName(proxy), context |-> proxy, pre |-> <<>>, post |-> <<>>,
     stored |-> RetrieveProxy(md, GetProxyName(proxy))]

\* self.proxyMap[proxy.GetProxyName()] = proxy
StoreProxyIfAbsent(proxyMap, proxy) == IF GetProxyName(proxy) \in DOMAIN proxyMap THEN proxyMap ELSE proxyMap @@ (GetProxyName(proxy) :> proxy)
StoreProxy(proxyMap, proxy) ==
    [k \in DOMAIN proxyMap \cup {GetProxyName(proxy)} |-> IF k = GetProxyName(proxy) THEN proxy ELSE proxyMap[k]]

\* Model.RegisterProxy, with a proxy whose OnRegister hook does nothing
RegisterProxyNotifiesReplaced(md, proxy) ==
    IF ~CanLock(md.proxyMapMutex)
    THEN ModelResult(md, "proxyMapMutex", <<>>, Nil)
    ELSE LET locked == [md EXCEPT !.proxyMapMutex = Lock(@)]
             replaced == RetrieveProxy(locked, GetProxyName(proxy))
             stored == [locked EXCEPT !.proxyMap = StoreProxy(@, proxy)]
         IN  ModelResult([stored EXCEPT !.proxyMapMutex = Unlock(@)], NoLock,
                         <<ProxyCall("InitializeNotifier", proxy, locked)>>
                         \o (IF replaced \in {Nil, proxy} THEN <<>> ELSE <<ProxyCall("OnRemove", replaced, stored)>>)
                         \o <<ProxyCall("OnRegister", proxy, stored)>>, Nil)
RegisterProxy(md, proxy) ==
    IF ~CanLock(md.proxyMapMutex)
    THEN ModelResult(md, "proxyMapMutex", <<>>, Nil)
    ELSE LET locked == [md EXCEPT !.proxyMapMutex = Lock(@)]
             stored == [locked EXCEPT !.proxyMap = StoreProxy(@, proxy)]
         IN  ModelResult([stored EXCEPT !.proxyMapMutex = Unlock(@)], NoLock,
                         <<ProxyCall("InitializeNotifier", proxy, locked), ProxyCall("OnRegister", proxy, stored)>>, Nil)

\* delete(self.proxyMap, proxyName)
DeleteProxyNot(proxyMap, proxyName) == proxyMap
DeleteProxy(proxyMap, proxyName) == [k \in DOMAIN proxyMap \ {proxyName} |-> proxyMap[k]]

\* Model.RemoveProxy, with a proxy whose OnRemove hook does nothing
RemoveProxy(md, proxyName) ==
    IF ~CanLock(md.proxyMapMutex)
    THEN ModelResult(md, "proxyMapMutex", <<>>, Nil)
    ELSE LET locked == [md EXCEPT !.proxyMapMutex = Lock(@)]
             proxy == RetrieveProxy(locked, proxyName)
             deleted == [locked EXCEPT !.proxyMap = DeleteProxy(@, proxyName)]
         IN  IF proxy = Nil
             THEN ModelResult([locked EXCEPT !.proxyMapMutex = Unlock(@)], NoLock, <<>>, Nil)
             ELSE ModelResult([deleted EXCEPT !.proxyMapMutex = Unlock(@)], NoLock, <<ProxyCall("OnRemove", proxy, deleted)>>, proxy)

(***************************************************************************)
(* MacroCommand.go                                                         *)
(***************************************************************************)
\* the factories of the sub-handlers (MacroCommandTestSub1Command, ...Sub2Command)
SubFactories == {"sub1", "sub2"}
\* a MacroCommand as its factory makes it; "pc": where its Execute is; history:
\* "added", the factories added since Execute last returned, "executed", the
\* sub-handlers run since Execute last began, "rerun", Execute began on an
\* instance that had run and was not re-populated
NewMacroCommand == [SubCommands |-> <<>>, pc |-> "idle", note |-> "none", added |-> <<>>, executed |-> <<>>, rerun |-> FALSE]

\* MacroCommand.InitializeMacroCommand, which MacroCommand.Execute calls on the
\* embedded MacroCommand: the empty method of the base type
InitializeMacroCommandRepopulates(subCommands) == Append(subCommands, "sub1")
InitializeMacroCommand(subCommands) == subCommands
\* MacroCommand.AddSubCommand
AddSubCommand(subCommands, factory) == Append(subCommands, factory)
\* factory := self.SubCommands[0]; self.SubCommands = self.SubCommands[1:]
TakeLastSubCommand(subCommands) == [factory |-> subCommands[Len(subCommands)], rest |-> SubSeq(subCommands, 1, Len(subCommands) - 1)]
TakeSubCommand(subCommands) == [factory |-> subCommands[1], rest |-> SubSeq(subCommands, 2, Len(subCommands))]

(***************************************************************************)
(* The state: the View and Controller singletons, the goroutine's call     *)
(* stack and the mutex it waits for, and the history the properties read.  *)
(***************************************************************************)
VARIABLES
    view,        \* the View struct
    controller,  \* the Controller struct
    stack,       \* frames of the calls in progress, innermost last
    blocked,     \* the mutex the goroutine waits for, NoLock when it runs
    nCalls,      \* history: calls made so far by code that calls what it likes
    registered,  \* history: per name, the contexts registered by RegisterObserver
                 \* and not yet named in a RemoveObserver, in registration order
    dupInserted, \* history: RegisterObserver was called for a context still registered
    lastTrace,   \* history: the RegisterObserver/RemoveObserver calls of the last API call
    lastDone,    \* history: the broadcast that has just returned
    phase,       \* history: per name, how far "register, remove, re-register" has got
    model,       \* the Model struct
    threads,     \* concurrent goroutines: what each is doing and what it holds
    instances,   \* the package variables "instance" and "instanceMutex"
    macro        \* a MacroCommand instance and the Execute call it is in

vars == <<view, controller, stack, blocked, nCalls, registered, dupInserted, lastTrace, lastDone, phase, model, threads, instances, macro>>
\* what the single goroutine with its call stack leaves alone
tvars == <<model, threads, instances, macro>>
\* what concurrent goroutines leave alone
svars == <<stack, blocked, nCalls, registered, dupInserted, lastTrace, lastDone, phase, macro>>

NoPrev == [name |-> "none", selfRemovers |-> FALSE, size |-> 0, count |-> 0]
NoBroadcast == [name |-> "none", atCall |-> <<>>, invoked |-> <<>>, removed |-> {}, added |-> {}, selfRemovers |-> FALSE, quiet |-> TRUE, prev |-> NoPrev]
NoPhase == [step |-> 0, old |-> NoFactory, new |-> NoFactory]

Top == stack[Len(stack)]
Pop == SubSeq(stack, 1, Len(stack) - 1)

\* the frame of a View.NotifyObservers in its loop
NotifyFrame(name, observers, atCall, selfRemovers, prev, calls) ==
    [kind |-> "NotifyObservers", name |-> name, observers |-> observers, index |-> 0,
     atCall |-> atCall, invoked |-> <<>>, removed |-> {}, added |-> {}, selfRemovers |-> selfRemovers,
     prev |-> prev, calls |-> calls]
\* the frame of Observer.NotifyObserver running the Notify function of an Observer
CallbackFrame(observer) == [kind |-> "NotifyObserver", observer |-> observer, done |-> FALSE]
\* the frame of Controller.ExecuteCommand running a handler's Execute
ExecuteFrame(name, factory, handlers) ==
    [kind |-> "ExecuteCommand", name |-> name, factory |-> factory, handlers |-> handlers,
     executing |-> handlers[Len(handlers)], note |-> name]

\* A mediator's HandleNotification removes the mediator (ViewTestMediator6); the
\* Notify function of a raw Observer and a command's Execute call what they like.
InFreeCode ==
    IF stack = <<>> THEN TRUE
    ELSE IF Top.kind = "ExecuteCommand" THEN TRUE
    ELSE IF Top.kind = "NotifyObserver" THEN Top.observer.Notify = "NotifyMethod"
    ELSE FALSE
Calling == blocked = NoLock /\ nCalls < MaxCalls /\ InFreeCode

\* the observer list of name holds exactly the Observers of one or more distinct,
\* registered mediators (each of which removes itself when notified)
SelfRemoversOnly(v, name) ==
    LET l == ListOf(v.observerMap, name)
    IN  /\ Len(l) >= 1
        /\ \A i \in 1..Len(l) :
            /\ l[i].Context \in Mediators
            /\ GetMediatorName(l[i].Context) \in DOMAIN v.mediatorMap
            /\ v.mediatorMap[GetMediatorName(l[i].Context)] = l[i].Context
        /\ \A i, j \in 1..Len(l) : l[i].Context = l[j].Context => i = j

\* history: a sequence without the first occurrence of x
RECURSIVE WithoutFirst(_, _)
WithoutFirst(seq, x) ==
    IF seq = <<>> THEN <<>>
    ELSE IF Head(seq) = x THEN Tail(seq)
    ELSE <<Head(seq)>> \o WithoutFirst(Tail(seq), x)

InSeq(seq, x) == \E i \in 1..Len(seq) : seq[i] = x

\* history: registered after the calls of a trace
RECURSIVE RegisteredAfter(_, _)
RegisteredAfter(reg, trace) ==
    IF trace = <<>> THEN reg
    ELSE LET call == Head(trace)
             next == IF call.op = "RegisterObserver"
                     THEN [reg EXCEPT ![call.name] = Append(@, call.context)]
                     ELSE IF call.op = "RemoveObserver"
                     THEN [reg EXCEPT ![call.name] = WithoutFirst(@, call.context)]
                     ELSE reg
         IN  RegisteredAfter(next, Tail(trace))

\* history: a call of the trace registers a context that is still registered
RECURSIVE InsertsDuplicate(_, _)
InsertsDuplicate(reg, trace) ==
    IF trace = <<>> THEN FALSE
    ELSE \/ Head(trace).op = "RegisterObserver" /\ InSeq(reg[Head(trace).name], Head(trace).context)
         \/ InsertsDuplicate(RegisteredAfter(reg, <<Head(trace)>>), Tail(trace))

\* history: in every broadcast in flight, the positions not yet invoked whose
\* Observer a RemoveObserver call of the trace names, and the contexts the
\* RegisterObserver calls of the trace register for the name of the broadcast
MarkRemoved(frame, trace) ==
    IF frame.kind # "NotifyObservers" THEN frame
    ELSE [frame EXCEPT !.added = @ \cup
            {trace[k].context : k \in {l \in 1..Len(trace) : trace[l].op = "RegisterObserver" /\ trace[l].name = frame.name}},
                       !.removed = @ \cup
            {j \in (frame.index + 1)..Len(frame.atCall) :
                \E k \in 1..Len(trace) :
                    /\ trace[k].op = "RemoveObserver"
                    /\ trace[k].name = frame.name
                    /\ trace[k].context = frame.atCall[j].Context
                    /\ InSeq([i \in 1..Len(trace[k].pre) |-> trace[k].pre[i].Context], trace[k].context)}]

\* history: what a call leaves behind, besides what it does to the structs
Record(newStack, trace) ==
    /\ stack' = [i \in 1..Len(newStack) |-> MarkRemoved(newStack[i], trace)]
    /\ registered' = RegisteredAfter(registered, trace)
    /\ dupInserted' = (dupInserted \/ InsertsDuplicate(registered, trace))
    /\ lastTrace' = trace
    /\ lastDone' = NoBroadcast

Init ==
    /\ view = InitializeView
    /\ controller = InitializeController
    /\ stack = <<>>
    /\ blocked = NoLock
    /\ nCalls = 0
    /\ registered = [n \in Names |-> <<>>]
    /\ dupInserted = FALSE
    /\ lastTrace = <<>>
    /\ lastDone = NoBroadcast
    /\ phase = [n \in Names |-> NoPhase]
    /\ model = InitializeModel
    /\ threads = <<>>
    /\ instances = <<>>
    /\ macro = NewMacroCommand

(***************************************************************************)
(* Calls made at top level, by the Notify function of a raw Observer or by *)
(* a command's Execute.                                                    *)
(***************************************************************************)
CallRegisterObserver(name, o) ==
    /\ UNCHANGED tvars
    /\ Calling
    /\ nCalls' = nCalls + 1
    /\ LET r == RegisterObserver(view, name, RawObserver(o))
       IN  /\ view' = r.view
           /\ blocked' = r.blocked
           /\ Record(stack, r.trace)
    /\ UNCHANGED <<controller, phase>>

CallRemoveObserver(name, o) ==
    /\ UNCHANGED tvars
    /\ Calling
    /\ nCalls' = nCalls + 1
    /\ LET r == RemoveObserver(view, name, o)
       IN  /\ view' = r.view
           /\ blocked' = r.blocked
           /\ Record(stack, r.trace)
    /\ UNCHANGED <<controller, phase>>

CallRegisterMediator(m) ==
    /\ UNCHANGED tvars
    /\ Calling
    /\ nCalls' = nCalls + 1
    /\ LET r == RegisterMediator(view, m)
       IN  /\ view' = r.view
           /\ blocked' = r.blocked
           /\ Record(stack, r.trace)
    /\ UNCHANGED <<controller, phase>>

CallRemoveMediator(mediatorName) ==
    /\ UNCHANGED tvars
    /\ Calling
    /\ nCalls' = nCalls + 1
    /\ LET r == RemoveMediator(view, mediatorName)
       IN  /\ view' = r.view
           /\ blocked' = r.blocked
           /\ Record(stack, r.trace)
    /\ UNCHANGED <<controller, phase>>

\* history: the command re-registered after a removal is a different factory
PhaseAfterRegister(ph, factory) ==
    IF ph.step = 2 /\ ph.old # factory
    THEN [step |-> 3, old |-> ph.old, new |-> factory]
    ELSE [step |-> 1, old |-> factory, new |-> NoFactory]
PhaseAfterRemove(ph, c, name) ==
    IF HasCommand(c, name)
    THEN [step |-> 2, old |-> c.commandMap[name], new |-> NoFactory]
    ELSE ph

CallRegisterCommand(name, factory) ==
    /\ UNCHANGED tvars
    /\ Calling
    /\ nCalls' = nCalls + 1
    /\ LET r == RegisterCommand(controller, view, name, factory)
       IN  /\ controller' = r.controller
           /\ view' = r.view
           /\ blocked' = r.blocked
           /\ Record(stack, r.trace)
           /\ phase' = IF r.blocked = NoLock THEN [phase EXCEPT ![name] = PhaseAfterRegister(@, factory)] ELSE phase

CallRemoveCommand(name) ==
    /\ UNCHANGED tvars
    /\ Calling
    /\ nCalls' = nCalls + 1
    /\ LET r == RemoveCommand(controller, view, name)
       IN  /\ controller' = r.controller
           /\ view' = r.view
           /\ blocked' = r.blocked
           /\ Record(stack, r.trace)
           /\ phase' = IF r.blocked = NoLock THEN [phase EXCEPT ![name] = PhaseAfterRemove(@, controller, name)] ELSE phase

\* the broadcast that returned right before this call, if this call follows it directly
PrevOf(done) ==
    IF done.name = "none" THEN NoPrev
    ELSE [name |-> done.name, selfRemovers |-> done.selfRemovers, size |-> Len(done.atCall), count |-> Len(done.invoked)]

CallNotifyObservers(name) ==
    /\ UNCHANGED tvars
    /\ Calling
    /\ nCalls' = nCalls + 1
    /\ Len(stack) < MaxDepth
    /\ LET r == NotifyObserversBegin(view, name)
           frame == NotifyFrame(name, r.observers, ListOf(view.observerMap, name), SelfRemoversOnly(view, name), PrevOf(lastDone), nCalls + 1)
       IN  /\ view' = r.view
           /\ blocked' = r.blocked
           /\ Record(IF r.blocked = NoLock THEN Append(stack, frame) ELSE stack, <<>>)
    /\ UNCHANGED <<controller, phase>>

CallExecuteCommand(name) ==
    /\ UNCHANGED tvars
    /\ Calling
    /\ nCalls' = nCalls + 1
    /\ Len(stack) < MaxDepth
    /\ LET r == ExecuteCommandBegin(controller, name)
       IN  /\ controller' = r.controller
           /\ blocked' = r.blocked
           /\ Record(IF r.factory # NoFactory THEN Append(stack, ExecuteFrame(name, r.factory, r.handlers)) ELSE stack, <<>>)
    /\ UNCHANGED <<view, phase>>

(***************************************************************************)
(* The loop of View.NotifyObservers and the callbacks it runs.             *)
(***************************************************************************)
\* history: one more Observer of the working array has been invoked
Invoked(frame, observer, ran) ==
    [frame EXCEPT !.index = @ + 1, !.invoked = Append(@, [observer |-> observer, ran |-> ran])]

\* observer.NotifyObserver(notification) for the next Observer of the working
\* array: its Notify function starts to run
InvokeObserver ==
    /\ UNCHANGED tvars
    /\ blocked = NoLock
    /\ stack # <<>>
    /\ Top.kind = "NotifyObservers"
    /\ Top.index < Len(Top.observers)
    /\ Top.observers[Top.index + 1].Notify # "ExecuteCommand"
    /\ Len(stack) < MaxDepth
    /\ LET observer == Top.observers[Top.index + 1]
       IN  stack' = Append(Append(Pop, Invoked(Top, observer, NoFactory)), CallbackFrame(observer))
    /\ lastDone' = NoBroadcast
    /\ UNCHANGED <<view, controller, blocked, nCalls, registered, dupInserted, lastTrace, phase>>

\* the same for the Controller's Observer, whose Notify is Controller.ExecuteCommand
InvokeExecuteCommand ==
    /\ UNCHANGED tvars
    /\ blocked = NoLock
    /\ stack # <<>>
    /\ Top.kind = "NotifyObservers"
    /\ Top.index < Len(Top.observers)
    /\ Top.observers[Top.index + 1].Notify = "ExecuteCommand"
    /\ Len(stack) < MaxDepth
    /\ LET observer == Top.observers[Top.index + 1]
           r == ExecuteCommandBegin(controller, Top.name)
           frame == Invoked(Top, observer, r.factory)
       IN  /\ controller' = r.controller
           /\ blocked' = r.blocked
           /\ stack' = IF r.blocked # NoLock THEN stack
                       ELSE IF r.factory = NoFactory THEN Append(Pop, frame)
                       ELSE Append(Append(Pop, frame), ExecuteFrame(Top.name, r.factory, r.handlers))
    /\ lastDone' = NoBroadcast
    /\ UNCHANGED <<view, nCalls, registered, dupInserted, lastTrace, phase>>

\* ViewTestMediator6.HandleNotification: the mediator removes itself
HandleNotification ==
    /\ UNCHANGED tvars
    /\ blocked = NoLock
    /\ stack # <<>>
    /\ Top.kind = "NotifyObserver"
    /\ Top.observer.Notify = "HandleNotification"
    /\ ~Top.done
    /\ LET r == RemoveMediator(view, GetMediatorName(Top.observer.Context))
       IN  /\ view' = r.view
           /\ blocked' = r.blocked
           /\ Record(IF r.blocked = NoLock THEN Append(Pop, [Top EXCEPT !.done = TRUE]) ELSE stack, r.trace)
    /\ UNCHANGED <<controller, nCalls, phase>>

\* the Notify function of an Observer returns
ReturnFromCallback ==
    /\ UNCHANGED tvars
    /\ blocked = NoLock
    /\ stack # <<>>
    /\ Top.kind = "NotifyObserver"
    /\ IF Top.observer.Notify = "HandleNotification" THEN Top.done ELSE TRUE
    /\ stack' = Pop
    /\ UNCHANGED <<view, controller, blocked, nCalls, registered, dupInserted, lastTrace, lastDone, phase>>

\* a command's Execute returns, and Controller.ExecuteCommand with it
ReturnFromExecute ==
    /\ UNCHANGED tvars
    /\ blocked = NoLock
    /\ stack # <<>>
    /\ Top.kind = "ExecuteCommand"
    /\ controller' = ExecuteCommandEnd(controller)
    /\ stack' = Pop
    /\ UNCHANGED <<view, blocked, nCalls, registered, dupInserted, lastTrace, lastDone, phase>>

\* the loop of View.NotifyObservers is over: NotifyObservers returns
NotifyObserversReturn ==
    /\ UNCHANGED tvars
    /\ blocked = NoLock
    /\ stack # <<>>
    /\ Top.kind = "NotifyObservers"
    /\ Top.index >= Len(Top.observers)
    /\ stack' = Pop
    /\ lastDone' = [name |-> Top.name, atCall |-> Top.atCall, invoked |-> Top.invoked,
                    removed |-> Top.removed, added |-> Top.added, selfRemovers |-> Top.selfRemovers,
                    quiet |-> (nCalls = Top.calls), prev |-> Top.prev]
    /\ UNCHANGED <<view, controller, blocked, nCalls, registered, dupInserted, lastTrace, phase>>

Next ==
    \/ \E name \in RawNames, o \in RawContexts : CallRegisterObserver(name, o)
    \/ \E name \in RawNames, o \in RawContexts : CallRemoveObserver(name, o)
    \/ \E m \in Mediators : CallRegisterMediator(m)
    \/ \E mediatorName \in MediatorNames : CallRemoveMediator(mediatorName)
    \/ \E name \in Names, factory \in Factories : CallRegisterCommand(name, factory)
    \/ \E name \in Names : CallRemoveCommand(name)
    \/ \E name \in Names : CallNotifyObservers(name)
    \/ \E name \in Names : CallExecuteCommand(name)
    \/ InvokeObserver
    \/ InvokeExecuteCommand
    \/ HandleNotification
    \/ ReturnFromCallback
    \/ ReturnFromExecute
    \/ NotifyObserversReturn

Spec == Init /\ [][Next]_vars

(***************************************************************************)
(* The same with callbacks that abort (panic).  View.NotifyObservers and   *)
(* Observer.NotifyObserver have no recover and no deferred call; the only  *)
(* deferred call on the way is the RUnlock of Controller.ExecuteCommand.   *)
(* The caller of NotifyObservers may recover and go on, or abort in turn.  *)
(***************************************************************************)
\* history: the broadcast a panic came out of, "pre" the Observers it had
\* invoked, the last of them the one that aborted, "post" its working array
PanicCall(st, context) ==
    IF Len(st) >= 2 /\ st[Len(st) - 1].kind = "NotifyObservers"
    THEN LET frame == st[Len(st) - 1]
         IN  [op |-> "Panic", name |-> frame.name, context |-> context,
              pre |-> [i \in 1..Len(frame.invoked) |-> frame.invoked[i].observer],
              post |-> frame.observers, calls |-> frame.calls]
    ELSE [op |-> "Panic", name |-> "none", context |-> context, pre |-> <<>>, post |-> <<>>, calls |-> 0]

\* the call stack when the panic of the running callback has left the callback
\* and the loop of NotifyObservers that invoked it
UnwindCallbackOnly(st) == SubSeq(st, 1, Len(st) - 1)
Unwind(st) ==
    IF Len(st) >= 2 /\ st[Len(st) - 1].kind = "NotifyObservers"
    THEN SubSeq(st, 1, Len(st) - 2)
    ELSE SubSeq(st, 1, Len(st) - 1)

\* the running Notify function or Execute method panics
Panic ==
    /\ UNCHANGED tvars
    /\ blocked = NoLock
    /\ stack # <<>>
    /\ Top.kind \in {"NotifyObserver", "ExecuteCommand"}
    /\ controller' = IF Top.kind = "ExecuteCommand" THEN ExecuteCommandEnd(controller) ELSE controller
    /\ stack' = Unwind(stack)
    /\ lastTrace' = <<PanicCall(stack, IF Top.kind = "ExecuteCommand" THEN ControllerContext ELSE Top.observer.Context)>>
    /\ lastDone' = NoBroadcast
    /\ UNCHANGED <<view, blocked, nCalls, registered, dupInserted, phase>>

NextAborts ==
    \/ Next
    \/ Panic

SpecAborts == Init /\ [][NextAborts]_vars

(***************************************************************************)
(* The three registries with callers that register and remove proxies,     *)
(* mediators and commands, and no broadcast.                               *)
(***************************************************************************)
CallRegisterProxy(proxy) ==
    /\ Calling
    /\ nCalls' = nCalls + 1
    /\ LET r == RegisterProxy(model, proxy)
       IN  /\ model' = r.model
           /\ blocked' = r.blocked
           /\ lastTrace' = r.trace
    /\ UNCHANGED <<view, controller, stack, registered, dupInserted, lastDone, phase, threads, instances, macro>>

CallRemoveProxy(proxyName) ==
    /\ Calling
    /\ nCalls' = nCalls + 1
    /\ LET r == RemoveProxy(model, proxyName)
       IN  /\ model' = r.model
           /\ blocked' = r.blocked
           /\ lastTrace' = r.trace
    /\ UNCHANGED <<view, controller, stack, registered, dupInserted, lastDone, phase, threads, instances, macro>>

NextRegistries ==
    \/ \E proxy \in Proxies : CallRegisterProxy(proxy)
    \/ \E proxyName \in ProxyNames : CallRemoveProxy(proxyName)
    \/ \E m \in Mediators : CallRegisterMediator(m)
    \/ \E mediatorName \in MediatorNames : CallRemoveMediator(mediatorName)
    \/ \E name \in Names, factory \in Factories : CallRegisterCommand(name, factory)
    \/ \E name \in Names : CallRemoveCommand(name)

SpecRegistries == Init /\ [][NextRegistries]_vars

(***************************************************************************)
(* A MacroCommand instance whose owner adds sub-handler factories and      *)
(* calls Execute, again and again; a sub-handler may add factories too.    *)
(***************************************************************************)
mvars == <<view, controller, model, threads, instances, stack, blocked, registered, dupInserted, lastTrace, lastDone, phase>>

\* self.AddSubCommand(factory), by the owner or by a running sub-handler
CallAddSubCommand(factory) ==
    /\ macro.pc \in {"idle", "done", "sub"}
    /\ nCalls < MaxCalls
    /\ nCalls' = nCalls + 1
    /\ macro' = [macro EXCEPT !.SubCommands = AddSubCommand(@, factory),
                              !.added = IF macro.pc = "done" THEN <<factory>> ELSE Append(@, factory),
                              !.rerun = FALSE,
                              !.pc = IF @ = "done" THEN "idle" ELSE @]
    /\ UNCHANGED mvars

\* Execute(notification) is called: self.InitializeMacroCommand()
MacroExecuteBegin(name) ==
    /\ macro.pc \in {"idle", "done"}
    /\ nCalls < MaxCalls
    /\ nCalls' = nCalls + 1
    /\ macro' = [macro EXCEPT !.SubCommands = InitializeMacroCommand(@),
                              !.pc = "loop",
                              !.note = name,
                              !.added = IF macro.pc = "done" THEN <<>> ELSE @,
                              !.executed = <<>>,
                              !.rerun = (macro.pc = "done")]
    /\ UNCHANGED mvars

\* one round of the loop: the first factory leaves the list, its handler is
\* made, initialized and executed with the notification
MacroExecuteSubCommand ==
    /\ macro.pc = "loop"
    /\ Len(macro.SubCommands) > 0
    /\ LET taken == TakeSubCommand(macro.SubCommands)
       IN  macro' = [macro EXCEPT !.SubCommands = taken.rest,
                                  !.pc = "sub",
                                  !.executed = Append(@, [handler |-> InitializeHandler(NewHandler(taken.factory)), note |-> macro.note])]
    /\ UNCHANGED nCalls
    /\ UNCHANGED mvars

\* the sub-handler's Execute returns
MacroSubCommandReturn ==
    /\ macro.pc = "sub"
    /\ macro' = [macro EXCEPT !.pc = "loop"]
    /\ UNCHANGED nCalls
    /\ UNCHANGED mvars

\* len(self.SubCommands) = 0: Execute returns
MacroExecuteReturn ==
    /\ macro.pc = "loop"
    /\ Len(macro.SubCommands) = 0
    /\ macro' = [macro EXCEPT !.pc = "done"]
    /\ UNCHANGED nCalls
    /\ UNCHANGED mvars

NextMacro ==
    \/ \E factory \in SubFactories : CallAddSubCommand(factory)
    \/ \E name \in Names : MacroExecuteBegin(name)
    \/ MacroExecuteSubCommand
    \/ MacroSubCommandReturn
    \/ MacroExecuteReturn

SpecMacro == Init /\ [][NextMacro]_vars

(***************************************************************************)
(* The observer lists alone, with Observers that are told apart: every     *)
(* RegisterObserver call registers an Observer the caller has just         *)
(* allocated, and "ptr" tells the allocations apart, in their order.       *)
(***************************************************************************)
\* &observer.Observer{Notify: ..., Context: ...}, the object allocated by the call-th call
FreshObserver(o, call) == [Notify |-> "NotifyMethod", Context |-> o, ptr |-> call]

CallRegisterFresh(name, o) ==
    /\ UNCHANGED tvars
    /\ Calling
    /\ nCalls' = nCalls + 1
    /\ LET r == RegisterObserver(view, name, FreshObserver(o, nCalls + 1))
       IN  /\ view' = r.view
           /\ blocked' = r.blocked
           /\ Record(stack, r.trace)
    /\ UNCHANGED <<controller, phase>>

NextLists ==
    \/ \E name \in RawNames, o \in RawContexts : CallRegisterFresh(name, o)
    \/ \E name \in RawNames, o \in RawContexts : CallRemoveObserver(name, o)
    \/ \E name \in RawNames : CallNotifyObservers(name)
    \/ InvokeObserver
    \/ ReturnFromCallback
    \/ NotifyObserversReturn

SpecLists == Init /\ [][NextLists]_vars

(***************************************************************************)
(* Two mediator instances of one name, and the observer list of their      *)
(* interest.                                                               *)
(***************************************************************************)
NextMediators ==
    \/ \E name \in RawNames, o \in RawContexts : CallRegisterObserver(name, o)
    \/ \E m \in SameNameMediators : CallRegisterMediator(m)
    \/ \E m \in SameNameMediators : CallRemoveMediator(GetMediatorName(m))
    \/ \E name \in RawNames : CallNotifyObservers(name)
    \/ InvokeObserver
    \/ HandleNotification
    \/ ReturnFromCallback
    \/ NotifyObserversReturn

SpecMediators == Init /\ [][NextMediators]_vars

(***************************************************************************)
(* Concurrent goroutines.  Each goroutine makes one call at a time; a call *)
(* is the sequence of the steps its code takes on the shared structs: the  *)
(* mutex operations, the reads and writes of the maps, the hooks and       *)
(* callbacks (which terminate and call nothing).  The steps of different   *)
(* goroutines interleave.                                                  *)
(***************************************************************************)
\* calls one goroutine makes in one behaviour
MaxThreadCalls == 2
Threads == {"t1", "t2"}
\* the facade package, whose instanceMutex Notifier.InitializeNotifier takes
FacadePackage == "facade"
Packages == {"facade", "model", "view", "controller"}

\* one step of a call: "on" is the mutex, the map or the hook of the step
Step(i, on, key, val) == [i |-> i, on |-> on, key |-> key, val |-> val]
ILock(mu) == Step("Lock", mu, Nil, Nil)
ILockWait(mu) == Step("LockWait", mu, Nil, Nil)
IUnlock(mu) == Step("Unlock", mu, Nil, Nil)
IRLock(mu) == Step("RLock", mu, Nil, Nil)
IRUnlock(mu) == Step("RUnlock", mu, Nil, Nil)
IRead(map, key) == Step("Read", map, key, Nil)
IStore(map, key, val) == Step("Store", map, key, val)
IDelete(map, key) == Step("Delete", map, key, Nil)
IAppend(name, observer) == Step("Append", "observerMap", name, observer)
ISplice(name, notifyContext) == Step("Splice", "observerMap", name, notifyContext)
ICopy(name) == Step("Copy", "observerMap", name, Nil)
ILoop == Step("Loop", "observers", Nil, Nil)
IHook(hook) == Step("Hook", hook, Nil, Nil)

\* the mutex that guards a map
MutexOfMap(map) ==
    CASE map = "commandMap" -> "commandMapMutex"
      [] map = "mediatorMap" -> "mediatorMapMutex"
      [] map = "observerMap" -> "observerMapMutex"
      [] map = "proxyMap" -> "proxyMapMutex"

\* a call: View.RegisterObserver(name, arg), Controller.RegisterCommand(name, arg), ...
Call(op, name, arg) == [op |-> op, name |-> name, arg |-> arg]
NoCall == Call("none", Nil, Nil)

\* Notifier.InitializeNotifier: facade.GetInstance, the Facade being there already
InitializeNotifierCode == <<ILock("instanceMutex"), IUnlock("instanceMutex")>>
\* View.RegisterObserver
RegisterObserverCode(notificationName, observer) ==
    <<ILock("observerMapMutex"), IAppend(notificationName, observer), IUnlock("observerMapMutex")>>
\* View.RemoveObserver
RemoveObserverNoUnlock(notificationName, notifyContext) ==
    <<ILock("observerMapMutex"), ISplice(notificationName, notifyContext)>>
RemoveObserverCode(notificationName, notifyContext) ==
    <<ILock("observerMapMutex"), ISplice(notificationName, notifyContext), IUnlock("observerMapMutex")>>
\* the loops of RegisterMediator and RemoveMediator over the interests
RECURSIVE RegisterInterestsCode(_, _)
RegisterInterestsCode(interests, observer) ==
    IF interests = <<>> THEN <<>>
    ELSE RegisterObserverCode(Head(interests), observer) \o RegisterInterestsCode(Tail(interests), observer)
RECURSIVE RemoveInterestsCode(_, _)
RemoveInterestsCode(interests, mediator) ==
    IF interests = <<>> THEN <<>>
    ELSE RemoveObserverCode(Head(interests), mediator) \o RemoveInterestsCode(Tail(interests), mediator)

\* View.NotifyObservers
NotifyObserversUnlockFirst(name) == <<IRLock("observerMapMutex"), IRUnlock("observerMapMutex"), ICopy(name), ILoop>>
NotifyObserversCode(name) == <<IRLock("observerMapMutex"), ICopy(name), IRUnlock("observerMapMutex"), ILoop>>

\* View.RegisterMediator up to its lookup of the mediator's name
RegisterMediatorReadLocked(mediator) == <<IRLock("mediatorMapMutex"), IRead("mediatorMap", GetMediatorName(mediator))>>
RegisterMediatorCode(mediator) == <<ILock("mediatorMapMutex"), IRead("mediatorMap", GetMediatorName(mediator))>>
\* the steps of View.HasMediator: the read lock is released before the map is read
HasMediatorCode(mediatorName) ==
    <<IRLock("mediatorMapMutex"), IRUnlock("mediatorMapMutex"), IRead("mediatorMap", mediatorName)>>

\* Controller.ExecuteCommand after its lookup: commandFunc(), InitializeNotifier
\* and Execute of the new command, then the deferred RUnlock
ExecuteCommandUnlocksFirst(commandFunc) ==
    IF commandFunc = Nil THEN <<IRUnlock("commandMapMutex")>>
    ELSE <<IRUnlock("commandMapMutex"), IHook("factory")>> \o InitializeNotifierCode \o <<IHook("Execute")>>
ExecuteCommandCode(commandFunc) ==
    IF commandFunc = Nil THEN <<IRUnlock("commandMapMutex")>>
    ELSE <<IHook("factory")>> \o InitializeNotifierCode \o <<IHook("Execute"), IRUnlock("commandMapMutex")>>

\* the steps of a call up to and including its first read of a map
Code(call) ==
    CASE call.op = "RegisterObserver" -> RegisterObserverCode(call.name, call.arg)
      [] call.op = "RemoveObserver" -> RemoveObserverCode(call.name, call.arg)
      [] call.op = "NotifyObservers" -> NotifyObserversCode(call.name)
      [] call.op = "RegisterMediator" -> RegisterMediatorCode(call.arg)
      [] call.op = "RemoveMediator" -> <<ILock("mediatorMapMutex"), IRead("mediatorMap", call.name)>>
      [] call.op = "RetrieveMediator" -> <<IRLock("mediatorMapMutex"), IRead("mediatorMap", call.name)>>
      [] call.op = "HasMediator" -> HasMediatorCode(call.name)
      [] call.op = "RegisterCommand" -> <<ILock("commandMapMutex"), IRead("commandMap", call.name)>>
      [] call.op = "RemoveCommand" -> <<ILock("commandMapMutex"), IRead("commandMap", call.name)>>
      [] call.op = "HasCommand" -> <<IRLock("commandMapMutex"), IRead("commandMap", call.name)>>
      [] call.op = "ExecuteCommand" -> <<IRLock("commandMapMutex"), IRead("commandMap", call.name)>>
      [] call.op = "RegisterProxy" -> <<ILock("proxyMapMutex")>> \o InitializeNotifierCode \o <<IStore("proxyMap", call.name, call.arg), IHook("OnRegister"), IUnlock("proxyMapMutex")>>
      [] call.op = "RemoveProxy" -> <<ILock("proxyMapMutex"), IRead("proxyMap", call.name)>>
      [] call.op = "RetrieveProxy" -> <<IRLock("proxyMapMutex"), IRead("proxyMap", call.name)>>
      [] call.op = "HasProxy" -> <<IRLock("proxyMapMutex"), IRead("proxyMap", call.name)>>

\* the steps of a call after its read of a map has found val (Nil: no entry)
Rest(call, val) ==
    CASE call.op = "RegisterMediator" ->
            IF val # Nil THEN <<IUnlock("mediatorMapMutex")>>
            ELSE InitializeNotifierCode \o <<IStore("mediatorMap", GetMediatorName(call.arg), call.arg)>>
                 \o RegisterInterestsCode(ListNotificationInterests(call.arg), MediatorObserver(call.arg))
                 \o <<IHook("OnRegister"), IUnlock("mediatorMapMutex")>>
      [] call.op = "RemoveMediator" ->
            IF val = Nil THEN <<IUnlock("mediatorMapMutex")>>
            ELSE RemoveInterestsCode(ListNotificationInterests(val), val)
                 \o <<IDelete("mediatorMap", call.name), IHook("OnRemove"), IUnlock("mediatorMapMutex")>>
      [] call.op = "RetrieveMediator" -> <<IRUnlock("mediatorMapMutex")>>
      [] call.op = "HasMediator" -> <<>>
      [] call.op = "RegisterCommand" ->
            (IF val = Nil THEN RegisterObserverCode(call.name, ControllerObserver) ELSE <<>>)
            \o <<IStore("commandMap", call.name, call.arg), IUnlock("commandMapMutex")>>
      [] call.op = "RemoveCommand" ->
            IF val = Nil THEN <<IUnlock("commandMapMutex")>>
            ELSE RemoveObserverCode(call.name, ControllerContext)
                 \o <<IDelete("commandMap", call.name), IUnlock("commandMapMutex")>>
      [] call.op = "HasCommand" -> <<IRUnlock("commandMapMutex")>>
      [] call.op = "ExecuteCommand" ->
            ExecuteCommandCode(val)
      [] call.op = "RemoveProxy" ->
            IF val = Nil THEN <<IUnlock("proxyMapMutex")>>
            ELSE <<IDelete("proxyMap", call.name), IHook("OnRemove"), IUnlock("proxyMapMutex")>>
      [] call.op = "RetrieveProxy" -> <<IRUnlock("proxyMapMutex")>>
      [] call.op = "HasProxy" -> <<IRUnlock("proxyMapMutex")>>

\* the calls the goroutines choose from
ThreadCalls ==
    {Call("RegisterObserver", "X", RawObserver("o1")), Call("RemoveObserver", "X", "o1"), Call("NotifyObservers", "X", Nil),
     Call("RegisterMediator", GetMediatorName("m1"), "m1"), Call("RemoveMediator", GetMediatorName("m1"), Nil),
     Call("RetrieveMediator", GetMediatorName("m1"), Nil), Call("HasMediator", GetMediatorName("m1"), Nil),
     Call("RegisterCommand", "X", "f1"), Call("RemoveCommand", "X", Nil), Call("HasCommand", "X", Nil), Call("ExecuteCommand", "X", Nil),
     Call("RegisterProxy", "p1", "proxy1"), Call("RemoveProxy", "p1", Nil), Call("RetrieveProxy", "p1", Nil), Call("HasProxy", "p1", Nil)}

\* a goroutine between two calls, calls made so far
IdleThread(calls) ==
    [call |-> NoCall, code |-> <<>>, held |-> <<>>, val |-> Nil, ref |-> <<>>, observers |-> <<>>,
     atUnlock |-> <<>>, invoked |-> <<>>, seen |-> {}, calls |-> calls, caller |-> <<>>]
\* a goroutine with the steps it has left; without any, its call returns, to
\* the loop of the NotifyObservers that made the call if there is one
After(th, rest) ==
    IF rest # <<>> THEN [th EXCEPT !.code = rest]
    ELSE IF th.caller = <<>> THEN IdleThread(th.calls)
    ELSE [th EXCEPT !.call = th.caller[1].call, !.code = th.caller[1].code, !.val = Nil, !.caller = <<>>]
\* the step a goroutine takes next
NextStep(t) == IF threads[t].code = <<>> THEN Step("none", Nil, Nil, Nil) ELSE Head(threads[t].code)

\* the package variables of a framework whose singletons exist
InstancesCreated == [p \in Packages |-> [instance |-> "standard", instanceMutex |-> Unlocked, factoryCalls |-> 1, initCalls |-> 1]]

MutexOf(mu) ==
    CASE mu = "commandMapMutex" -> controller.commandMapMutex
      [] mu = "mediatorMapMutex" -> view.mediatorMapMutex
      [] mu = "observerMapMutex" -> view.observerMapMutex
      [] mu = "proxyMapMutex" -> model.proxyMapMutex
      [] mu = "instanceMutex" -> instances[FacadePackage].instanceMutex

SetMutex(mu, val) ==
    /\ controller' = IF mu = "commandMapMutex" THEN [controller EXCEPT !.commandMapMutex = val] ELSE controller
    /\ view' = IF mu = "mediatorMapMutex" THEN [view EXCEPT !.mediatorMapMutex = val]
               ELSE IF mu = "observerMapMutex" THEN [view EXCEPT !.observerMapMutex = val]
               ELSE view
    /\ model' = IF mu = "proxyMapMutex" THEN [model EXCEPT !.proxyMapMutex = val] ELSE model
    /\ instances' = IF mu = "instanceMutex" THEN [instances EXCEPT ![FacadePackage].instanceMutex = val] ELSE instances

\* map[key], Nil without an entry
Lookup(map, key) ==
    LET m == CASE map = "commandMap" -> controller.commandMap
               [] map = "mediatorMap" -> view.mediatorMap
               [] map = "proxyMap" -> model.proxyMap
    IN  IF key \in DOMAIN m THEN m[key] ELSE Nil

\* a map after a writing step
Written(ins, m) ==
    CASE ins.i = "Store" -> [k \in DOMAIN m \cup {ins.key} |-> IF k = ins.key THEN ins.val ELSE m[k]]
      [] ins.i = "Delete" -> [k \in DOMAIN m \ {ins.key} |-> m[k]]
      [] ins.i = "Append" -> AppendObserver(m, ins.key, ins.val)
      [] ins.i = "Splice" -> RemoveFromMap(m, ins.key, ins.val)

WithoutLast(held, mu) == SelectSeq(held, LAMBDA h : h # mu)

InitThreads ==
    /\ view = InitializeView
    /\ controller = InitializeController
    /\ model = InitializeModel
    /\ instances = InstancesCreated
    /\ macro = NewMacroCommand
    /\ threads = [t \in Threads |-> IdleThread(0)]
    /\ stack = <<>>
    /\ blocked = NoLock
    /\ nCalls = 0
    /\ registered = [n \in Names |-> <<>>]
    /\ dupInserted = FALSE
    /\ lastTrace = <<>>
    /\ lastDone = NoBroadcast
    /\ phase = [n \in Names |-> NoPhase]

\* history: NotifyObservers has been called and has not released the read lock yet
Snapshotting(th) == th.call.op = "NotifyObservers" /\ th.code # <<>> /\ Head(th.code).i \in {"RLock", "Copy", "RUnlock"}
\* history: the contents the observer list of its name has had since a
\* NotifyObservers was called and until it releases the read lock
Seen(th, om) == IF Snapshotting(th) THEN [th EXCEPT !.seen = @ \cup {ListOf(om, th.call.name)}] ELSE th

\* a goroutine that has just made the call
Started(th, call) == Seen([IdleThread(th.calls + 1) EXCEPT !.call = call, !.code = Code(call)], view.observerMap)

\* a goroutine calls into the framework
StartCall(t, call) ==
    /\ threads[t].call = NoCall
    /\ threads[t].calls < MaxThreadCalls
    /\ threads' = [threads EXCEPT ![t] = Started(@, call)]
    /\ UNCHANGED <<view, controller, model, instances>>
    /\ UNCHANGED svars

\* RWMutex.Lock: the writer announces itself, which keeps new readers out, and
\* has the mutex at once if no reader holds it
LockStep(t) ==
    /\ NextStep(t).i = "Lock"
    /\ ~MutexOf(NextStep(t).on).w
    /\ SetMutex(NextStep(t).on, Lock(MutexOf(NextStep(t).on)))
    /\ threads' = [threads EXCEPT ![t] =
            IF MutexOf(NextStep(t).on).r = 0
            THEN [@ EXCEPT !.held = Append(@, NextStep(t).on), !.code = Tail(@)]
            ELSE [@ EXCEPT !.code = <<ILockWait(NextStep(t).on)>> \o Tail(@)]]
    /\ UNCHANGED svars

\* RWMutex.Lock: the announced writer has the mutex when the last reader has left
LockWaitStep(t) ==
    /\ NextStep(t).i = "LockWait"
    /\ MutexOf(NextStep(t).on).r = 0
    /\ threads' = [threads EXCEPT ![t] = [@ EXCEPT !.held = Append(@, NextStep(t).on), !.code = Tail(@)]]
    /\ UNCHANGED <<view, controller, model, instances>>
    /\ UNCHANGED svars

UnlockStep(t) ==
    /\ NextStep(t).i = "Unlock"
    /\ SetMutex(NextStep(t).on, Unlock(MutexOf(NextStep(t).on)))
    /\ threads' = [threads EXCEPT ![t] = After([@ EXCEPT !.held = WithoutLast(@, NextStep(t).on)], Tail(@.code))]
    /\ UNCHANGED svars

\* RWMutex.RLock: waits while a writer holds the mutex or has announced itself
RLockStep(t) ==
    /\ NextStep(t).i = "RLock"
    /\ CanRLock(MutexOf(NextStep(t).on))
    /\ SetMutex(NextStep(t).on, RLock(MutexOf(NextStep(t).on)))
    /\ threads' = [threads EXCEPT ![t] = [@ EXCEPT !.held = Append(@, NextStep(t).on), !.code = Tail(@)]]
    /\ UNCHANGED svars

\* RWMutex.RUnlock; NotifyObservers has its working array by now
RUnlockStep(t) ==
    /\ NextStep(t).i = "RUnlock"
    /\ SetMutex(NextStep(t).on, RUnlock(MutexOf(NextStep(t).on)))
    /\ threads' = [threads EXCEPT ![t] =
            After([@ EXCEPT !.held = WithoutLast(@, NextStep(t).on),
                            !.atUnlock = IF threads[t].call.op = "NotifyObservers" THEN ListOf(view.observerMap, threads[t].call.name) ELSE <<>>],
                  Tail(@.code))]
    /\ UNCHANGED svars

\* the call reads a map and goes on as what it finds tells it to
ReadStep(t) ==
    /\ NextStep(t).i = "Read"
    /\ LET val == Lookup(NextStep(t).on, NextStep(t).key)
       IN  threads' = [threads EXCEPT ![t] = After([@ EXCEPT !.val = val], Rest(@.call, val))]
    /\ UNCHANGED <<view, controller, model, instances>>
    /\ UNCHANGED svars

\* the call writes a map
WriteStep(t) ==
    /\ NextStep(t).i \in {"Store", "Delete", "Append", "Splice"}
    /\ controller' = IF NextStep(t).on = "commandMap" THEN [controller EXCEPT !.commandMap = Written(NextStep(t), @)] ELSE controller
    /\ view' = IF NextStep(t).on = "mediatorMap" THEN [view EXCEPT !.mediatorMap = Written(NextStep(t), @)]
               ELSE IF NextStep(t).on = "observerMap" THEN [view EXCEPT !.observerMap = Written(NextStep(t), @)]
               ELSE view
    /\ model' = IF NextStep(t).on = "proxyMap" THEN [model EXCEPT !.proxyMap = Written(NextStep(t), @)] ELSE model
    /\ threads' = [u \in Threads |-> IF u = t THEN After(threads[t], Tail(threads[t].code)) ELSE Seen(threads[u], view'.observerMap)]
    /\ UNCHANGED instances
    /\ UNCHANGED svars

\* the element copy(observers, observersRef) copies next: what the backing array
\* of observersRef holds at that index now
CopiedElement(ref, stored, index) == IF index <= Len(stored) THEN stored[index] ELSE ref[index]

\* NotifyObservers reads the list of the name (observersRef), makes the working
\* array and copies the list into it, one element at a time
CopyStep(t) ==
    /\ NextStep(t).i = "Copy"
    /\ LET th == threads[t]
           stored == ListOf(view.observerMap, NextStep(t).key)
           ref == IF th.observers = <<>> THEN stored ELSE th.ref
           copied == IF ref = <<>> THEN <<>> ELSE Append(th.observers, CopiedElement(ref, stored, Len(th.observers) + 1))
       IN  threads' = [threads EXCEPT ![t] =
               [@ EXCEPT !.ref = ref, !.observers = copied,
                         !.code = IF Len(copied) = Len(ref) THEN Tail(@) ELSE @]]
    /\ UNCHANGED <<view, controller, model, instances>>
    /\ UNCHANGED svars

\* the loop of NotifyObservers: the Notify function of the next Observer of the
\* working array runs and returns
LoopStep(t) ==
    /\ NextStep(t).i = "Loop"
    /\ Len(threads[t].invoked) < Len(threads[t].observers)
    /\ threads' = [threads EXCEPT ![t] = [@ EXCEPT !.invoked = Append(@, threads[t].observers[Len(@) + 1])]]
    /\ UNCHANGED <<view, controller, model, instances>>
    /\ UNCHANGED svars

\* the loop is over, NotifyObservers returns
LoopExit(t) ==
    /\ NextStep(t).i = "Loop"
    /\ Len(threads[t].invoked) = Len(threads[t].observers)
    /\ threads' = [threads EXCEPT ![t] = After(@, Tail(@.code))]
    /\ UNCHANGED <<view, controller, model, instances>>
    /\ UNCHANGED svars

\* a factory, a handler's Execute or a lifecycle hook runs and returns
HookStep(t) ==
    /\ NextStep(t).i = "Hook"
    /\ threads' = [threads EXCEPT ![t] = After(@, Tail(@.code))]
    /\ UNCHANGED <<view, controller, model, instances>>
    /\ UNCHANGED svars

\* the steps of the call a goroutine is in
Continue(t) ==
    \/ LockStep(t)
    \/ LockWaitStep(t)
    \/ UnlockStep(t)
    \/ RLockStep(t)
    \/ RUnlockStep(t)
    \/ ReadStep(t)
    \/ WriteStep(t)
    \/ CopyStep(t)
    \/ LoopStep(t)
    \/ LoopExit(t)
    \/ HookStep(t)

NextThreads ==
    \/ \E t \in Threads, call \in ThreadCalls : StartCall(t, call)
    \/ \E t \in Threads : LockStep(t)
    \/ \E t \in Threads : LockWaitStep(t)
    \/ \E t \in Threads : UnlockStep(t)
    \/ \E t \in Threads : RLockStep(t)
    \/ \E t \in Threads : RUnlockStep(t)
    \/ \E t \in Threads : ReadStep(t)
    \/ \E t \in Threads : WriteStep(t)
    \/ \E t \in Threads : CopyStep(t)
    \/ \E t \in Threads : LoopStep(t)
    \/ \E t \in Threads : LoopExit(t)
    \/ \E t \in Threads : HookStep(t)

SpecThreads == InitThreads /\ [][NextThreads]_vars

\* the Go scheduler lets every goroutine that can take a step take it in the end
SpecThreadsFair == SpecThreads /\ \A t \in Threads : WF_vars(Continue(t))

(***************************************************************************)
(* The observer list of one name under concurrent goroutines.              *)
(***************************************************************************)
\* calls one goroutine makes to the observer list in one behaviour
MaxSnapshotCalls == 3
SnapshotCalls ==
    {Call("RegisterObserver", "X", RawObserver(o)) : o \in RawContexts}
    \cup {Call("RemoveObserver", "X", o) : o \in RawContexts}
    \cup {Call("NotifyObservers", "X", Nil)}

StartSnapshotCall(t, call) ==
    /\ threads[t].call = NoCall
    /\ threads[t].calls < MaxSnapshotCalls
    /\ threads' = [threads EXCEPT ![t] = Started(@, call)]
    /\ UNCHANGED <<view, controller, model, instances>>
    /\ UNCHANGED svars

NextSnapshot ==
    \/ \E t \in Threads, call \in SnapshotCalls : StartSnapshotCall(t, call)
    \/ \E t \in Threads : LockStep(t)
    \/ \E t \in Threads : LockWaitStep(t)
    \/ \E t \in Threads : UnlockStep(t)
    \/ \E t \in Threads : RLockStep(t)
    \/ \E t \in Threads : RUnlockStep(t)
    \/ \E t \in Threads : WriteStep(t)
    \/ \E t \in Threads : CopyStep(t)
    \/ \E t \in Threads : LoopStep(t)
    \/ \E t \in Threads : LoopExit(t)

SpecSnapshot == InitThreads /\ [][NextSnapshot]_vars

(***************************************************************************)
(* Goroutines that register different mediators of one name and look the   *)
(* name up.                                                                *)
(***************************************************************************)
SameNameCalls ==
    {Call("RegisterMediator", GetMediatorName(m), m) : m \in SameNameMediators}
    \cup {Call("RetrieveMediator", GetMediatorName(m), Nil) : m \in SameNameMediators}

NextSameName ==
    \/ \E t \in Threads, call \in SameNameCalls : StartCall(t, call)
    \/ \E t \in Threads : LockStep(t)
    \/ \E t \in Threads : LockWaitStep(t)
    \/ \E t \in Threads : UnlockStep(t)
    \/ \E t \in Threads : RLockStep(t)
    \/ \E t \in Threads : RUnlockStep(t)
    \/ \E t \in Threads : ReadStep(t)
    \/ \E t \in Threads : WriteStep(t)
    \/ \E t \in Threads : HookStep(t)

SpecSameName == InitThreads /\ [][NextSameName]_vars

(***************************************************************************)
(* Goroutines that register, remove and execute the command of one name    *)
(* and broadcast the name: the Notify function of the Controller's         *)
(* Observer is Controller.ExecuteCommand, which the loop of                *)
(* NotifyObservers calls on the broadcasting goroutine.                    *)
(***************************************************************************)
DispatchCalls ==
    {Call("RegisterCommand", "X", "f1"), Call("RemoveCommand", "X", Nil),
     Call("ExecuteCommand", "X", Nil), Call("NotifyObservers", "X", Nil)}

\* observer.NotifyObserver(notification) for the Controller's Observer
LoopDispatch(t) ==
    /\ NextStep(t).i = "Loop"
    /\ Len(threads[t].invoked) < Len(threads[t].observers)
    /\ threads[t].observers[Len(threads[t].invoked) + 1] = ControllerObserver
    /\ threads' = [threads EXCEPT ![t] =
            [@ EXCEPT !.invoked = Append(@, ControllerObserver),
                      !.caller = <<[call |-> threads[t].call, code |-> threads[t].code]>>,
                      !.call = Call("ExecuteCommand", threads[t].call.name, Nil),
                      !.code = Code(Call("ExecuteCommand", threads[t].call.name, Nil)),
                      !.val = Nil]]
    /\ UNCHANGED <<view, controller, model, instances>>
    /\ UNCHANGED svars

NextDispatch ==
    \/ \E t \in Threads, call \in DispatchCalls : StartCall(t, call)
    \/ \E t \in Threads : LockStep(t)
    \/ \E t \in Threads : LockWaitStep(t)
    \/ \E t \in Threads : UnlockStep(t)
    \/ \E t \in Threads : RLockStep(t)
    \/ \E t \in Threads : RUnlockStep(t)
    \/ \E t \in Threads : ReadStep(t)
    \/ \E t \in Threads : WriteStep(t)
    \/ \E t \in Threads : CopyStep(t)
    \/ \E t \in Threads : LoopDispatch(t)
    \/ \E t \in Threads : LoopExit(t)
    \/ \E t \in Threads : HookStep(t)

SpecDispatch == InitThreads /\ [][NextDispatch]_vars

(***************************************************************************)
(* Goroutines whose command factories, commands, mediators and proxies     *)
(* may panic when the framework calls them.  The framework recovers from   *)
(* nothing: the panic leaves the framework's function, running what the    *)
(* function has deferred, and the goroutine's own code recovers.           *)
(***************************************************************************)
AbortCalls ==
    {Call("RegisterCommand", "X", "f1"), Call("ExecuteCommand", "X", Nil),
     Call("RegisterMediator", GetMediatorName("m1"), "m1"), Call("RemoveMediator", GetMediatorName("m1"), Nil),
     Call("RegisterProxy", GetProxyName("p1"), "p1"), Call("RemoveProxy", GetProxyName("p1"), Nil)}

\* what a function that calls hooks has deferred when it calls them
DeferredNothing(call) == <<>>
DeferredUnlock(call) ==
    CASE call.op = "ExecuteCommand" -> <<IRUnlock("commandMapMutex")>>
      [] call.op \in {"RegisterMediator", "RemoveMediator"} -> <<IUnlock("mediatorMapMutex")>>
      [] call.op \in {"RegisterProxy", "RemoveProxy"} -> <<IUnlock("proxyMapMutex")>>

\* the factory, Execute, OnRegister or OnRemove that the goroutine calls
\* panics: the rest of the function is skipped but for what it has deferred
HookPanics(t) ==
    /\ NextStep(t).i = "Hook"
    /\ threads' = [threads EXCEPT ![t] = After([@ EXCEPT !.caller = <<>>], DeferredUnlock(@.call))]
    /\ lastTrace' = <<[op |-> "Panic", name |-> threads[t].call.op, context |-> t, pre |-> <<>>, post |-> <<>>]>>
    /\ UNCHANGED <<view, controller, model, instances>>
    /\ UNCHANGED <<stack, blocked, nCalls, registered, dupInserted, lastDone, phase, macro>>

NextThreadAborts ==
    \/ \E t \in Threads, call \in AbortCalls : StartCall(t, call)
    \/ \E t \in Threads : LockStep(t)
    \/ \E t \in Threads : LockWaitStep(t)
    \/ \E t \in Threads : UnlockStep(t)
    \/ \E t \in Threads : RLockStep(t)
    \/ \E t \in Threads : RUnlockStep(t)
    \/ \E t \in Threads : ReadStep(t)
    \/ \E t \in Threads : WriteStep(t)
    \/ \E t \in Threads : HookStep(t)
    \/ \E t \in Threads : HookPanics(t)

SpecThreadAborts == InitThreads /\ [][NextThreadAborts]_vars

(***************************************************************************)
(* The GetInstance functions of the packages facade, model, view and       *)
(* controller, called by concurrent goroutines that pass factories of      *)
(* their own.  The Initialize method of a new Facade gets the Model, the   *)
(* Controller and the View, that of a new Controller gets the View.        *)
(***************************************************************************)
\* the factories the goroutines pass
InstanceFactories == {"fA", "fB"}
\* the factory the framework passes when it gets an instance for itself
StandardFactory == "standard"

\* the GetInstance calls of InitializeFacade and InitializeController
InitializeCalls(p) ==
    CASE p = "facade" -> <<"model", "controller", "view">>
      [] p = "controller" -> <<"view">>
      [] OTHER -> <<>>

\* factories of Facade subclasses whose InitializeView (InitializeModel) override
\* initializes the core actor and then registers an IMediator (an IProxy)
SubclassFactories == {"fSubView", "fSubModel"}
\* the GetInstance calls of the Initialize method of an instance: a subclass's
\* RegisterMediator and RegisterProxy call InitializeNotifier of the
\* collaborator, which calls GetInstance of the Facade
InitializeCallsOf(p, instance) ==
    CASE p = FacadePackage /\ instance = "fSubView" -> <<"model", "controller", "view", FacadePackage>>
      [] p = FacadePackage /\ instance = "fSubModel" -> <<"model", FacadePackage, "controller", "view">>
      [] OTHER -> InitializeCalls(p)

\* no package has its instance yet
NoInstances == [p \in Packages |-> [instance |-> Nil, instanceMutex |-> Unlocked, factoryCalls |-> 0, initCalls |-> 0]]

\* instanceMutex.Lock() of GetInstance
InstanceMutexNoLock(mu) == mu
InstanceMutexLock(mu) == Lock(mu)

\* a GetInstance call in progress
InstanceFrame(p, factory) == [package |-> p, factory |-> factory, pc |-> "Lock", todo |-> <<>>]
\* the GetInstance call a goroutine is in, innermost
TopFrame(t) == threads[t].frames[Len(threads[t].frames)]
InGetInstance(t, pc) == threads[t].frames # <<>> /\ TopFrame(t).pc = pc
\* the goroutine with its innermost call changed
WithTop(th, frame) == [th EXCEPT !.frames = Append(SubSeq(@, 1, Len(@) - 1), frame)]

InitSingletons ==
    /\ view = InitializeView
    /\ controller = InitializeController
    /\ model = InitializeModel
    /\ instances = NoInstances
    /\ macro = NewMacroCommand
    /\ threads = [t \in Threads |-> [frames |-> <<>>, calls |-> 0, got |-> {}]]
    /\ stack = <<>>
    /\ blocked = NoLock
    /\ nCalls = 0
    /\ registered = [n \in Names |-> <<>>]
    /\ dupInserted = FALSE
    /\ lastTrace = <<>>
    /\ lastDone = NoBroadcast
    /\ phase = [n \in Names |-> NoPhase]

\* a goroutine calls GetInstance of a package
GetInstanceCall(t, p, factory) ==
    /\ threads[t].frames = <<>>
    /\ threads[t].calls < MaxThreadCalls
    /\ threads' = [threads EXCEPT ![t] = [@ EXCEPT !.frames = <<InstanceFrame(p, factory)>>, !.calls = @ + 1]]
    /\ UNCHANGED <<view, controller, model, instances>>
    /\ UNCHANGED svars

\* instanceMutex.Lock()
GetInstanceLock(t) ==
    /\ InGetInstance(t, "Lock")
    /\ CanLock(instances[TopFrame(t).package].instanceMutex)
    /\ instances' = [instances EXCEPT ![TopFrame(t).package].instanceMutex = InstanceMutexLock(@)]
    /\ threads' = [threads EXCEPT ![t] = WithTop(@, [TopFrame(t) EXCEPT !.pc = "Check"])]
    /\ UNCHANGED <<view, controller, model>>
    /\ UNCHANGED svars

\* if instance == nil
GetInstanceCheck(t) ==
    /\ InGetInstance(t, "Check")
    /\ threads' = [threads EXCEPT ![t] = WithTop(@, [TopFrame(t) EXCEPT
            !.pc = IF instances[TopFrame(t).package].instance = Nil THEN "Create" ELSE "Return"])]
    /\ UNCHANGED <<view, controller, model, instances>>
    /\ UNCHANGED svars

\* instance = factory()
GetInstanceCreate(t) ==
    /\ InGetInstance(t, "Create")
    /\ instances' = [instances EXCEPT ![TopFrame(t).package] = [@ EXCEPT !.instance = TopFrame(t).factory, !.factoryCalls = @ + 1]]
    /\ threads' = [threads EXCEPT ![t] = WithTop(@, [TopFrame(t) EXCEPT !.pc = "Initialize"])]
    /\ UNCHANGED <<view, controller, model>>
    /\ UNCHANGED svars

\* instance.InitializeFacade() and the like: the method is entered
GetInstanceInitialize(t) ==
    /\ InGetInstance(t, "Initialize")
    /\ instances' = [instances EXCEPT ![TopFrame(t).package].initCalls = @ + 1]
    /\ threads' = [threads EXCEPT ![t] = WithTop(@, [TopFrame(t) EXCEPT
            !.todo = InitializeCallsOf(TopFrame(t).package, instances[TopFrame(t).package].instance),
            !.pc = IF InitializeCalls(TopFrame(t).package) = <<>> THEN "Return" ELSE "Nested"])]
    /\ UNCHANGED <<view, controller, model>>
    /\ UNCHANGED svars

\* the Initialize method calls the GetInstance of the next package it needs
GetInstanceNested(t) ==
    /\ InGetInstance(t, "Nested")
    /\ LET frame == TopFrame(t)
           waiting == [frame EXCEPT !.todo = Tail(@), !.pc = IF Tail(frame.todo) = <<>> THEN "Return" ELSE "Nested"]
       IN  threads' = [threads EXCEPT ![t] = [@ EXCEPT !.frames = Append(WithTop(threads[t], waiting).frames, InstanceFrame(Head(frame.todo), StandardFactory))]]
    /\ UNCHANGED <<view, controller, model, instances>>
    /\ UNCHANGED svars

\* return instance, and the deferred instanceMutex.Unlock()
GetInstanceReturn(t) ==
    /\ InGetInstance(t, "Return")
    /\ instances' = [instances EXCEPT ![TopFrame(t).package].instanceMutex = Unlock(@)]
    /\ threads' = [threads EXCEPT ![t] = [@ EXCEPT
            !.frames = SubSeq(@, 1, Len(@) - 1),
            !.got = @ \cup {<<TopFrame(t).package, instances[TopFrame(t).package].instance>>}]]
    /\ UNCHANGED <<view, controller, model>>
    /\ UNCHANGED svars

NextSingletons ==
    \/ \E t \in Threads, p \in Packages, factory \in InstanceFactories : GetInstanceCall(t, p, factory)
    \/ \E t \in Threads : GetInstanceLock(t)
    \/ \E t \in Threads : GetInstanceCheck(t)
    \/ \E t \in Threads : GetInstanceCreate(t)
    \/ \E t \in Threads : GetInstanceInitialize(t)
    \/ \E t \in Threads : GetInstanceNested(t)
    \/ \E t \in Threads : GetInstanceReturn(t)

SpecSingletons == InitSingletons /\ [][NextSingletons]_vars

\* the same with goroutines that also pass factories of Facade subclasses
NextSubclass ==
    \/ \E t \in Threads, p \in Packages, factory \in InstanceFactories : GetInstanceCall(t, p, factory)
    \/ \E t \in Threads, factory \in SubclassFactories : GetInstanceCall(t, FacadePackage, factory)
    \/ \E t \in Threads : GetInstanceLock(t)
    \/ \E t \in Threads : GetInstanceCheck(t)
    \/ \E t \in Threads : GetInstanceCreate(t)
    \/ \E t \in Threads : GetInstanceInitialize(t)
    \/ \E t \in Threads : GetInstanceNested(t)
    \/ \E t \in Threads : GetInstanceReturn(t)

SpecSubclass == InitSingletons /\ [][NextSubclass]_vars

(***************************************************************************)
(* Properties.                                                             *)
(***************************************************************************)
\* the contexts of a list of Observers, in order
Contexts(observers) == [i \in 1..Len(observers) |-> observers[i].Context]
\* how many Observers of a list have the context
CountOf(observers, context) == Cardinality({i \in 1..Len(observers) : observers[i].Context = context})
\* no two Observers of a list have the same context
DistinctContexts(observers) == \A i, j \in 1..Len(observers) : observers[i].Context = observers[j].Context => i = j
\* a list of Observers without those of the context, the others in their order
RECURSIVE WithoutContext(_, _)
WithoutContext(observers, context) ==
    IF observers = <<>> THEN <<>>
    ELSE IF Head(observers).Context = context THEN WithoutContext(Tail(observers), context)
    ELSE <<Head(observers)>> \o WithoutContext(Tail(observers), context)
\* the frames of the broadcasts in flight
NotifyFrames == {i \in 1..Len(stack) : stack[i].kind = "NotifyObservers"}
\* m is the mediator stored under its name
IsRegistered(m) ==
    /\ GetMediatorName(m) \in DOMAIN view.mediatorMap
    /\ view.mediatorMap[GetMediatorName(m)] = m

\* C1: NotifyObservers invokes the Observers of the list it finds at the call in
\* that list's order, each once: a broadcast in flight has invoked a prefix of
\* the list, a broadcast that has returned has invoked all of it, also the
\* Observers that a callback of this broadcast removed before their turn.
SnapshotInvokedOnce ==
    /\ \A i \in NotifyFrames :
        /\ Len(stack[i].invoked) = stack[i].index
        /\ stack[i].index <= Len(stack[i].atCall)
        /\ \A j \in 1..Len(stack[i].invoked) : stack[i].invoked[j].observer = stack[i].atCall[j]
    /\ lastDone.name # "none" =>
        [j \in 1..Len(lastDone.invoked) |-> lastDone.invoked[j].observer] = lastDone.atCall

\* C1's case: a broadcast has returned in which a callback removed an Observer
\* of the snapshot before that Observer's turn
SnapshotInvokedOnceWitness ==
    /\ lastDone.name # "none"
    /\ lastDone.removed # {}
    /\ Len(lastDone.invoked) = Len(lastDone.atCall)

\* C2: when the observer list of a name holds just the Observers of N >= 1
\* registered mediators that remove themselves when notified, a broadcast of
\* the name invokes all N, and the broadcast of the same name that follows it
\* directly invokes nothing.
SelfRemoversSecondBroadcastSilent ==
    (/\ lastDone.name # "none"
     /\ lastDone.prev.name = lastDone.name
     /\ lastDone.prev.selfRemovers)
    => /\ lastDone.prev.count = lastDone.prev.size
       /\ lastDone.invoked = <<>>

\* C3: a RemoveObserver call that finds its context in a list of Observers with
\* pairwise distinct contexts leaves the list without that Observer: one
\* shorter, the others as they were and in their order.
RemoveObserverDeletesExactlyOne ==
    \A k \in 1..Len(lastTrace) :
        (/\ lastTrace[k].op = "RemoveObserver"
         /\ DistinctContexts(lastTrace[k].pre)
         /\ CountOf(lastTrace[k].pre, lastTrace[k].context) = 1)
        => /\ Len(lastTrace[k].post) = Len(lastTrace[k].pre) - 1
           /\ lastTrace[k].post = WithoutContext(lastTrace[k].pre, lastTrace[k].context)

\* C4: whenever the goroutine runs, a broadcast of a name a mediator lists
\* among its interests would invoke the mediator's Observer once if the
\* mediator is registered, and not at all if it is not (it never was, or
\* RemoveMediator has returned).
RemovedMediatorNotNotified ==
    blocked = NoLock =>
        \A m \in Mediators : \A i \in 1..Len(ListNotificationInterests(m)) :
            CountOf(WorkingArray(view, ListNotificationInterests(m)[i]), m) = IF IsRegistered(m) THEN 1 ELSE 0

\* C5: a name whose registered Observers have all been removed again has no key
\* in the observer map, so a broadcast of it invokes nothing; and no key maps to
\* an empty list.
AllRemovedNoKey ==
    /\ \A name \in Names : registered[name] = <<>> =>
        /\ name \notin DOMAIN view.observerMap
        /\ WorkingArray(view, name) = <<>>
    /\ \A name \in DOMAIN view.observerMap : view.observerMap[name] # <<>>

\* C6: as long as no caller has registered a context that was still registered
\* for the name, no observer list holds two Observers of one context.
OneObserverPerContext ==
    ~dupInserted => \A name \in DOMAIN view.observerMap : DistinctContexts(view.observerMap[name])

\* C7: whenever the goroutine runs, the observer list of a name holds exactly
\* one Observer of the Controller if the name has a command, and none if it has
\* not, whatever else is registered for the name.
OneControllerObserverPerCommand ==
    blocked = NoLock =>
        \A name \in Names :
            CountOf(ListOf(view.observerMap, name), ControllerContext) = IF HasCommand(controller, name) THEN 1 ELSE 0

\* C8: after a command was registered for a name, removed, and a different
\* factory registered for the name, a broadcast of the name whose callbacks call
\* nothing runs the new factory's handler once and the old factory's not at all.
ReregisteredCommandRunsOnce ==
    (/\ lastDone.name # "none"
     /\ lastDone.quiet
     /\ phase[lastDone.name].step = 3)
    => /\ Cardinality({j \in 1..Len(lastDone.invoked) : lastDone.invoked[j].ran = phase[lastDone.name].new}) = 1
       /\ Cardinality({j \in 1..Len(lastDone.invoked) : lastDone.invoked[j].ran = phase[lastDone.name].old}) = 0

\* C9: a handler that runs inside ExecuteCommand and calls RegisterCommand or
\* RemoveCommand gets the call back: the goroutine is never left waiting for
\* the Controller's commandMapMutex.
CommandCallFromHandlerReturns ==
    blocked # "commandMapMutex"

\* C10: while a broadcast is in flight (its callbacks run, or the loop is
\* between two of them) the goroutine holds no mutex of the View, and a call a
\* callback makes into the View never leaves it waiting for one.
NoViewLockDuringCallbacks ==
    /\ blocked \notin {"observerMapMutex", "mediatorMapMutex"}
    /\ NotifyFrames # {} =>
        /\ view.observerMapMutex = Unlocked
        /\ view.mediatorMapMutex = Unlocked

\* C10's case: the Notify function of the first Observer of a broadcast has
\* called into the View, the call has changed an observer list, the function
\* has returned, and the loop has gone on to the second Observer
NoViewLockDuringCallbacksWitness ==
    /\ NotifyFrames # {}
    /\ stack[1].kind = "NotifyObservers"
    /\ stack[1].index >= 2
    /\ stack[1].calls < nCalls
    /\ lastTrace # <<>>
    /\ blocked = NoLock

\* the steps that read a map, and those that write one
ReadSteps == {"Read", "Copy"}
WriteSteps == {"Store", "Delete", "Append", "Splice"}
\* the steps that take a mutex or wait for one
AcquireSteps == {"Lock", "LockWait", "RLock"}
Holds(t, mu) == InSeq(threads[t].held, mu)

\* C11: a goroutine that is about to read a map (a lookup in commandMap,
\* mediatorMap or proxyMap, the copy of an observer list) holds the mutex of
\* that map, so no other goroutine is about to write the map at that moment.
ReadsUnderMapLock ==
    \A t \in Threads :
        NextStep(t).i \in ReadSteps =>
            /\ Holds(t, MutexOfMap(NextStep(t).on))
            /\ \A u \in Threads \ {t} : ~(NextStep(u).i \in WriteSteps /\ NextStep(u).on = NextStep(t).on)

\* C12: a goroutine in RegisterCommand or RemoveCommand that holds the
\* Controller's commandMapMutex neither holds the View's observerMapMutex nor
\* is about to take it.
NoObserverLockUnderCommandLock ==
    \A t \in Threads :
        (threads[t].call.op \in {"RegisterCommand", "RemoveCommand"} /\ Holds(t, "commandMapMutex"))
        => /\ ~Holds(t, "observerMapMutex")
           /\ ~(NextStep(t).i \in AcquireSteps /\ NextStep(t).on = "observerMapMutex")

\* an order of the mutexes: those of the three maps a call starts with first,
\* the observer lists' next, the facade package's last
LockRank(mu) ==
    CASE mu \in {"commandMapMutex", "mediatorMapMutex", "proxyMapMutex"} -> 1
      [] mu = "observerMapMutex" -> 2
      [] mu = "instanceMutex" -> 3
\* every mutex a goroutine holds it took after those of lower rank only, and
\* the one it is about to take ranks above all it holds
LockOrderRespected ==
    \A t \in Threads :
        /\ \A i, j \in 1..Len(threads[t].held) : i < j => LockRank(threads[t].held[i]) < LockRank(threads[t].held[j])
        /\ NextStep(t).i \in AcquireSteps =>
            \A i \in 1..Len(threads[t].held) : LockRank(threads[t].held[i]) < LockRank(NextStep(t).on)

\* C13: with callbacks, handlers and hooks that return and call nothing, the
\* goroutines take the mutexes in one order, which has no cycle, and under a
\* fair scheduler every call a goroutine has started returns.
AcyclicLocksAndCallsReturn ==
    /\ []LockOrderRespected
    /\ \A t \in Threads : (threads[t].call # NoCall) ~> (threads[t].call = NoCall)

\* C13's case: a goroutine in RegisterCommand holds commandMapMutex and waits
\* for observerMapMutex, which a goroutine in RegisterMediator holds together
\* with mediatorMapMutex
AcyclicLocksAndCallsReturnWitness ==
    \E t, u \in Threads :
        /\ threads[t].call.op = "RegisterCommand"
        /\ threads[t].held = <<"commandMapMutex">>
        /\ NextStep(t) = ILock("observerMapMutex")
        /\ threads[u].call.op = "RegisterMediator"
        /\ threads[u].held = <<"mediatorMapMutex", "observerMapMutex">>

\* Observers in the order of their registration; an Observer that is there
\* more than once in one run
InRegistrationOrder(observers) == \A i, j \in 1..Len(observers) : i < j => observers[i].ptr <= observers[j].ptr

\* C14: a broadcast invokes the Observers of its snapshot in the order of their
\* registration, one at a time: the callback that runs is that of the Observer
\* invoked last, all Observers registered before it have been invoked and
\* their callbacks have returned, none registered after it has been invoked.
FifoDelivery ==
    /\ \A i \in NotifyFrames :
        /\ InRegistrationOrder(stack[i].atCall)
        /\ [j \in 1..stack[i].index |-> stack[i].invoked[j].observer] = SubSeq(stack[i].atCall, 1, stack[i].index)
        /\ i < Len(stack) =>
            /\ stack[i + 1].kind = "NotifyObserver"
            /\ stack[i].index >= 1
            /\ stack[i + 1].observer = stack[i].atCall[stack[i].index]
    /\ lastDone.name # "none" =>
        /\ InRegistrationOrder([j \in 1..Len(lastDone.invoked) |-> lastDone.invoked[j].observer])
        /\ Len(lastDone.invoked) = Len(lastDone.atCall)

\* C14's case: a broadcast has returned whose snapshot held Observers of
\* different registrations, one of them twice (what a RemoveObserver left), and
\* an Observer registered after that removal
FifoDeliveryWitness ==
    /\ lastDone.name # "none"
    /\ Len(lastDone.invoked) >= 3
    /\ lastDone.invoked[1].observer = lastDone.invoked[2].observer
    /\ lastDone.invoked[2].observer.ptr < lastDone.invoked[3].observer.ptr

\* the broadcasts in flight and the one that has just returned
Broadcasts == {stack[i] : i \in NotifyFrames} \cup (IF lastDone.name = "none" THEN {} ELSE {lastDone})

\* C15: an Observer registered for the name of a broadcast while the broadcast
\* is in flight (by RegisterObserver, RegisterMediator or RegisterCommand, its
\* context not being in the snapshot) is not invoked by that broadcast; and as
\* long as no RemoveObserver has named its context, a broadcast of the name
\* that started now would invoke it.
RegisteredDuringBroadcastWaits ==
    \A b \in Broadcasts : \A c \in b.added :
        /\ ~InSeq(Contexts(b.atCall), c) => \A j \in 1..Len(b.invoked) : b.invoked[j].observer.Context # c
        /\ InSeq(registered[b.name], c) => CountOf(WorkingArray(view, b.name), c) >= 1

\* C15's case: a broadcast has returned during which callbacks registered a raw
\* Observer, a mediator and the Controller for its name, none of them in the
\* snapshot, and none has been removed since
RegisteredDuringBroadcastWaitsWitness ==
    /\ lastDone.name # "none"
    /\ lastDone.invoked # <<>>
    /\ \E o \in RawContexts, m \in Mediators : {o, m, ControllerContext} \subseteq lastDone.added
    /\ \A c \in lastDone.added : ~InSeq(Contexts(lastDone.atCall), c) /\ InSeq(registered[lastDone.name], c)

\* C16: the working array a NotifyObservers loops over, whatever other
\* goroutines do to the list meanwhile, is what the stored list of the name held
\* at one moment between the call and the release of the read lock, and the
\* Observers invoked are those of the working array, in its order.
AtomicSnapshot ==
    \A t \in Threads :
        NextStep(t).i = "Loop" =>
            /\ threads[t].observers \in threads[t].seen
            /\ threads[t].invoked = SubSeq(threads[t].observers, 1, Len(threads[t].invoked))

\* C16's case: a NotifyObservers has copied a part of a list of three
\* Observers, and a RemoveObserver of another goroutine, which would shift the
\* list, waits for the read lock to be released
AtomicSnapshotWitness ==
    \E t, u \in Threads :
        /\ NextStep(t).i = "Copy"
        /\ Len(threads[t].ref) = 3
        /\ Len(threads[t].observers) \in {1, 2}
        /\ threads[u].call.op = "RemoveObserver"
        /\ NextStep(u).i = "LockWait"
        /\ FindObserver(ListOf(view.observerMap, "X"), threads[u].call.arg, 1) = 1

\* RegisterMediator with a name that has a mediator changes nothing and calls
\* nothing: neither RegisterObserver nor the OnRegister hook
ReregistrationChangesNothing ==
    \A m \in SameNameMediators :
        (GetMediatorName(m) \in DOMAIN view.mediatorMap /\ CanLock(view.mediatorMapMutex))
        => RegisterMediator(view, m) = ViewResult(view, NoLock, <<>>)

\* C17: RegisterMediator with a name that has a mediator is a no-op (the first
\* mediator stays, no Observer is added, OnRegister is not called), so that,
\* however often it was called, a broadcast of the mediators' interest would
\* invoke one Observer of a mediator of that name while the name is
\* registered, and none once RemoveMediator has returned.
MediatorReregistrationNoOp ==
    /\ ReregistrationChangesNothing
    /\ blocked = NoLock =>
        Cardinality({i \in 1..Len(WorkingArray(view, "X")) : WorkingArray(view, "X")[i].Context \in SameNameMediators})
            = IF GetMediatorName("m1") \in DOMAIN view.mediatorMap THEN 1 ELSE 0

\* a broadcast during which no callback has called into the framework so far
Quiet(b) == IF b = lastDone THEN lastDone.quiet ELSE b.calls = nCalls

\* C18: once RemoveCommand has removed the command of a name, and until a
\* command is registered for the name again, HasCommand is false, no handler
\* of the name is running, ExecuteCommand would return without running one, and
\* a broadcast of the name has run none; and RemoveCommand on a name without a
\* command changes neither the Controller nor the View and makes no call.
RemovedCommandNeverRuns ==
    /\ \A name \in Names : phase[name].step = 2 =>
        /\ ~HasCommand(controller, name)
        /\ \A i \in 1..Len(stack) : stack[i].kind = "ExecuteCommand" => stack[i].name # name
        /\ CanRLock(controller.commandMapMutex) => ExecuteCommandBegin(controller, name).factory = NoFactory
        /\ \A b \in Broadcasts : (b.name = name /\ Quiet(b)) => \A j \in 1..Len(b.invoked) : b.invoked[j].ran = NoFactory
    /\ \A name \in Names :
        (~HasCommand(controller, name) /\ CanLock(controller.commandMapMutex))
        => RemoveCommand(controller, view, name) = ControllerResult(controller, view, NoLock, <<>>)

\* C18's case: after RegisterCommand and RemoveCommand of a name, a broadcast
\* of the name has returned that invoked the Observer of the Controller (the
\* one RemoveObserver left in the list)
RemovedCommandNeverRunsWitness ==
    /\ lastDone.name # "none"
    /\ phase[lastDone.name].step = 2
    /\ lastDone.quiet
    /\ \E j \in 1..Len(lastDone.invoked) : lastDone.invoked[j].observer = ControllerObserver

\* the dispatches in progress: the frames of ExecuteCommand running a handler
ExecuteFrames == {i \in 1..Len(stack) : stack[i].kind = "ExecuteCommand"}

\* C19: ExecuteCommand for a name without a factory returns and changes
\* nothing; for a name with a factory it creates one handler with that factory,
\* initializes it and executes it with the notification, and holds one read
\* lock while the handler runs: every dispatch in progress runs a handler of its
\* own, made by the factory registered for its name.
OneFreshHandlerPerDispatch ==
    /\ \A name \in Names : CanRLock(controller.commandMapMutex) =>
        IF HasCommand(controller, name)
        THEN /\ ExecuteCommandBegin(controller, name).factory = controller.commandMap[name]
             /\ Len(ExecuteCommandBegin(controller, name).handlers) = 1
        ELSE ExecuteCommandBegin(controller, name) = [controller |-> controller, blocked |-> NoLock, factory |-> NoFactory, handlers |-> <<>>]
    /\ \A i \in ExecuteFrames :
        /\ Len(stack[i].handlers) = 1
        /\ stack[i].executing = stack[i].handlers[1]
        /\ stack[i].executing.initialized
        /\ HasCommand(controller, stack[i].name)
        /\ stack[i].executing.factory = controller.commandMap[stack[i].name]
        /\ stack[i].note = stack[i].name
    /\ Cardinality(ExecuteFrames) = controller.commandMapMutex.r

\* C19's case: a handler runs that a broadcast dispatched, while the handler
\* of an ExecuteCommand call for the same name is still running: two
\* dispatches of one name in progress
OneFreshHandlerPerDispatchWitness ==
    \E i, j \in ExecuteFrames :
        /\ i < j
        /\ stack[i].name = stack[j].name
        /\ \E k \in NotifyFrames : i < k /\ k < j

\* C20: each package makes its instance on the first GetInstance call and once:
\* there is no instance before a factory was called, no package has called a
\* factory or an Initialize method twice, and every GetInstance call that has
\* returned has returned the one instance of its package, initialized, whatever
\* factory the call passed.
SingletonCreatedOnce ==
    /\ \A p \in Packages :
        /\ instances[p].factoryCalls <= 1
        /\ instances[p].initCalls <= instances[p].factoryCalls
        /\ (instances[p].instance = Nil) <=> (instances[p].factoryCalls = 0)
    /\ \A t \in Threads : \A g \in threads[t].got :
        /\ g[2] # Nil
        /\ g[2] = instances[g[1]].instance
        /\ instances[g[1]].factoryCalls = 1
        /\ instances[g[1]].initCalls = 1

\* C20's case: both goroutines have got the View, which one of them made with
\* its factory, while the other, passing another factory, was inside GetInstance
\* of the Facade or the Controller
SingletonCreatedOnceWitness ==
    /\ instances["view"].instance = StandardFactory
    /\ \E p \in {"facade", "controller"} : instances[p].instance \in InstanceFactories
    /\ \A t \in Threads : \E p \in Packages : <<p, instances[p].instance>> \in threads[t].got
    /\ \E t \in Threads : \E g \in threads[t].got : g[1] = "view"
    /\ \E t \in Threads : threads[t].calls = 2 /\ threads[t].frames = <<>>

\* the Initialize method of a package's instance has been entered and has not returned
Initializing(p) ==
    \E t \in Threads : \E i \in 1..Len(threads[t].frames) :
        /\ threads[t].frames[i].package = p
        /\ threads[t].frames[i].pc = "Nested" \/ i < Len(threads[t].frames)
\* the Initialize method of a package's instance has returned
Initialized(p) == instances[p].initCalls >= 1 /\ ~Initializing(p)
\* the GetInstance calls made, directly or not, by Facade initialization that
\* are about to create or initialize the instance of a package
FacadeInitializes(p) ==
    \E t \in Threads : \E i \in 1..Len(threads[t].frames) :
        /\ threads[t].frames[1].package = FacadePackage
        /\ threads[t].frames[i].package = p
        /\ threads[t].frames[i].pc \in {"Create", "Initialize"}

\* C21: Facade initialization initializes the Model, then the Controller, then
\* the View, each once: when it comes to create and initialize the Controller,
\* the Model's initialization has completed, and when it comes to create and
\* initialize the View, the Controller's initialization has completed.
FacadeInitializationOrder ==
    /\ \A p \in Packages : instances[p].initCalls <= 1
    /\ FacadeInitializes("controller") => Initialized("model")
    /\ FacadeInitializes("view") => Initialized("controller")

\* a goroutine waits for the instanceMutex that an enclosing GetInstance call
\* of its own holds: the mutex is not re-entrant, the call never returns
WaitsForOwnLock(t) ==
    \E i \in 1..Len(threads[t].frames) :
        /\ i < Len(threads[t].frames)
        /\ threads[t].frames[i].package = TopFrame(t).package
        /\ TopFrame(t).pc = "Lock"

\* C22: a Facade subclass whose InitializeView (InitializeModel) override
\* initializes the core actor and then registers mediators (proxies)
\* completes: the goroutine in GetInstance of the Facade never waits for a lock
\* that only its own return would release.
SubclassInitializationReturns == \A t \in Threads : ~WaitsForOwnLock(t)

\* C23: when the callback of the k-th Observer of a broadcast's working array
\* aborts, the Observers before it have been invoked once each, in order, the
\* k-th is the last one invoked, and the broadcast is over (its loop has left
\* the call stack, so the abort is with its caller and no later Observer of
\* the array is invoked).
AbortEndsBroadcast ==
    (lastTrace # <<>> /\ lastTrace[1].op = "Panic" /\ lastTrace[1].calls # 0) =>
        LET p == lastTrace[1]
            k == Len(p.pre)
        IN  /\ k >= 1
            /\ k <= Len(p.post)
            /\ \A i \in 1..k : p.pre[i] = p.post[i]
            /\ p.pre[k].Context = p.context
            /\ \A i \in 1..Len(stack) : ~(stack[i].kind = "NotifyObservers" /\ stack[i].calls = p.calls)

\* C23's case: the second of three Observers has aborted, in a broadcast made
\* by a callback
AbortEndsBroadcastWitness ==
    /\ lastTrace # <<>>
    /\ lastTrace[1].op = "Panic"
    /\ Len(lastTrace[1].pre) >= 2
    /\ Len(lastTrace[1].pre) < Len(lastTrace[1].post)
    /\ stack # <<>>

\* C24: when RegisterMediator(m) has succeeded (it has called m.OnRegister), m
\* is stored under its name, the call has registered one Observer of m for
\* each declared interest and then called OnRegister, once and last, and the
\* list of each declared interest, hence the working array of a broadcast of
\* it, holds exactly one Observer of m.
MediatorRegisteredOnce ==
    (lastTrace # <<>> /\ lastTrace[Len(lastTrace)].op = "OnRegister") =>
        LET mediator == lastTrace[Len(lastTrace)].context
            interests == ListNotificationInterests(mediator)
        IN  /\ IsRegistered(mediator)
            /\ Len(lastTrace) = Len(interests) + 1
            /\ \A i \in 1..Len(interests) :
                /\ lastTrace[i].op = "RegisterObserver"
                /\ lastTrace[i].name = interests[i]
                /\ lastTrace[i].context = mediator
                /\ CountOf(ListOf(view.observerMap, interests[i]), mediator) = 1
                /\ CanRLock(view.observerMapMutex) =>
                    CountOf(NotifyObserversBegin(view, interests[i]).observers, mediator) = 1

\* C25: RemoveMediator of a registered name returns the mediator stored under
\* it and calls that mediator's OnRemove once, last, when the name is no
\* longer in the mediator map, after which RetrieveMediator and HasMediator
\* report it absent; RemoveMediator of an unregistered name returns nil, calls
\* nothing and leaves the View as it is.
RemoveMediatorContract ==
    /\ \A mediatorName \in MediatorNames : CanLock(view.mediatorMapMutex) =>
        LET r == RemoveMediator(view, mediatorName)
        IN  IF ~HasMediator(view, mediatorName)
            THEN r = MediatorResult(view, NoLock, <<>>, Nil)
            ELSE r.blocked = NoLock =>
                /\ r.mediator = view.mediatorMap[mediatorName]
                /\ RetrieveMediator(r.view, mediatorName) = Nil
                /\ ~HasMediator(r.view, mediatorName)
                /\ r.view.mediatorMapMutex = view.mediatorMapMutex
                /\ r.trace[Len(r.trace)].op = "OnRemove"
                /\ r.trace[Len(r.trace)].context = r.mediator
                /\ ~r.trace[Len(r.trace)].stored
                /\ \A i \in 1..(Len(r.trace) - 1) : r.trace[i].op = "RemoveObserver"
    /\ (lastTrace # <<>> /\ lastTrace[Len(lastTrace)].op = "OnRemove") =>
        /\ ~lastTrace[Len(lastTrace)].stored
        /\ ~HasMediator(view, lastTrace[Len(lastTrace)].name)
        /\ \A i \in 1..(Len(lastTrace) - 1) : lastTrace[i].op = "RemoveObserver"

\* C25's case: a mediator with two interests has been removed, another one is
\* still registered
RemoveMediatorContractWitness ==
    /\ lastTrace # <<>>
    /\ lastTrace[Len(lastTrace)].op = "OnRemove"
    /\ Len(lastTrace) = 3
    /\ view.mediatorMap # <<>>

\* C26: RegisterProxy(p) stores p under its name whatever is stored there,
\* leaves the other names alone and calls p.OnRegister once, last, when p is
\* stored; afterwards RetrieveProxy of the name returns p.
RegisterProxyOverwrites ==
    /\ \A proxy \in Proxies : CanLock(model.proxyMapMutex) =>
        LET r == RegisterProxy(model, proxy)
            hooks == {i \in 1..Len(r.trace) : r.trace[i].op = "OnRegister"}
        IN  /\ r.blocked = NoLock
            /\ RetrieveProxy(r.model, GetProxyName(proxy)) = proxy
            /\ \A proxyName \in ProxyNames \ {GetProxyName(proxy)} :
                RetrieveProxy(r.model, proxyName) = RetrieveProxy(model, proxyName)
            /\ r.model.proxyMapMutex = model.proxyMapMutex
            /\ hooks = {Len(r.trace)}
            /\ r.trace[Len(r.trace)].context = proxy
            /\ r.trace[Len(r.trace)].stored = proxy
    /\ (lastTrace # <<>> /\ lastTrace[Len(lastTrace)].op = "OnRegister" /\ lastTrace[Len(lastTrace)].context \in Proxies) =>
        /\ RetrieveProxy(model, lastTrace[Len(lastTrace)].name) = lastTrace[Len(lastTrace)].context
        /\ lastTrace[Len(lastTrace)].stored = lastTrace[Len(lastTrace)].context

\* C26's case: a proxy has been registered under a name that held another one
RegisterProxyOverwritesWitness ==
    /\ lastTrace # <<>>
    /\ lastTrace[Len(lastTrace)].op = "OnRegister"
    /\ lastTrace[1].op = "InitializeNotifier"
    /\ lastTrace[1].stored \in Proxies \ {lastTrace[1].context}

\* C27: RemoveProxy of a registered name returns the proxy stored under it and
\* calls its OnRemove once, after which RetrieveProxy of the name returns nil;
\* RemoveProxy of an unregistered name returns nil, calls nothing and leaves
\* the Model as it is.
RemoveProxyContract ==
    /\ \A proxyName \in ProxyNames : CanLock(model.proxyMapMutex) =>
        LET r == RemoveProxy(model, proxyName)
        IN  IF ~HasProxy(model, proxyName)
            THEN r = ModelResult(model, NoLock, <<>>, Nil)
            ELSE /\ r.blocked = NoLock
                 /\ r.proxy = model.proxyMap[proxyName]
                 /\ RetrieveProxy(r.model, proxyName) = Nil
                 /\ \A other \in ProxyNames \ {proxyName} : RetrieveProxy(r.model, other) = RetrieveProxy(model, other)
                 /\ r.model.proxyMapMutex = model.proxyMapMutex
                 /\ Len(r.trace) = 1
                 /\ r.trace[1].op = "OnRemove"
                 /\ r.trace[1].context = r.proxy
    /\ (lastTrace # <<>> /\ lastTrace[1].op = "OnRemove" /\ lastTrace[1].context \in Proxies) =>
        RetrieveProxy(model, lastTrace[1].name) = Nil

\* C27's case: a proxy has been removed, another one is still registered
RemoveProxyContractWitness ==
    /\ lastTrace # <<>>
    /\ lastTrace[1].op = "OnRemove"
    /\ lastTrace[1].context \in Proxies
    /\ model.proxyMap # <<>>

\* C28: in every state the registries can reach by registrations and removals,
\* HasCommand, HasMediator and HasProxy of a name return true right after a
\* registration under that name has returned and false right after a removal
\* of it has returned.
HasAfterRegisterAndRemove ==
    /\ \A name \in Names :
        /\ \A factory \in Factories : RegisterCommand(controller, view, name, factory).blocked = NoLock =>
            HasCommand(RegisterCommand(controller, view, name, factory).controller, name)
        /\ RemoveCommand(controller, view, name).blocked = NoLock =>
            ~HasCommand(RemoveCommand(controller, view, name).controller, name)
    /\ \A m \in Mediators :
        /\ RegisterMediator(view, m).blocked = NoLock =>
            HasMediator(RegisterMediator(view, m).view, GetMediatorName(m))
        /\ RemoveMediator(view, GetMediatorName(m)).blocked = NoLock =>
            ~HasMediator(RemoveMediator(view, GetMediatorName(m)).view, GetMediatorName(m))
    /\ \A proxy \in Proxies :
        /\ RegisterProxy(model, proxy).blocked = NoLock =>
            HasProxy(RegisterProxy(model, proxy).model, GetProxyName(proxy))
        /\ RemoveProxy(model, GetProxyName(proxy)).blocked = NoLock =>
            ~HasProxy(RemoveProxy(model, GetProxyName(proxy)).model, GetProxyName(proxy))
    /\ (lastTrace # <<>> /\ lastTrace[Len(lastTrace)].op = "OnRegister") =>
        IF lastTrace[Len(lastTrace)].context \in Proxies
        THEN HasProxy(model, lastTrace[Len(lastTrace)].name)
        ELSE HasMediator(view, lastTrace[Len(lastTrace)].name)
    /\ (lastTrace # <<>> /\ lastTrace[Len(lastTrace)].op = "OnRemove") =>
        IF lastTrace[Len(lastTrace)].context \in Proxies
        THEN ~HasProxy(model, lastTrace[Len(lastTrace)].name)
        ELSE ~HasMediator(view, lastTrace[Len(lastTrace)].name)
    /\ \A name \in Names :
        /\ phase[name].step \in {1, 3} => HasCommand(controller, name)
        /\ phase[name].step = 2 => ~HasCommand(controller, name)

\* C28's case: each registry holds something and the last call has removed
\* one of two proxies
HasAfterRegisterAndRemoveWitness ==
    /\ \E name \in Names : HasCommand(controller, name)
    /\ \E m \in Mediators : HasMediator(view, GetMediatorName(m))
    /\ \E proxy \in Proxies : HasProxy(model, GetProxyName(proxy))
    /\ lastTrace # <<>>
    /\ lastTrace[1].op = "OnRemove"
    /\ lastTrace[1].context \in Proxies

\* the factories of the sub-handlers an Execute call has run, in their order
ExecutedFactories == [i \in 1..Len(macro.executed) |-> macro.executed[i].handler.factory]

\* C29: Execute runs the sub-handlers in the order of the AddSubCommand calls,
\* each made by its factory, initialized and given the notification of the
\* Execute call: while it runs they are a prefix of the factories added, and
\* when it returns they are all of them, each once.
MacroExecutesFifo ==
    /\ macro.pc \in {"loop", "sub", "done"} =>
        /\ Len(macro.executed) <= Len(macro.added)
        /\ ExecutedFactories = SubSeq(macro.added, 1, Len(macro.executed))
        /\ \A i \in 1..Len(macro.executed) :
            /\ macro.executed[i].note = macro.note
            /\ macro.executed[i].handler.initialized
    /\ macro.pc = "done" => ExecutedFactories = macro.added

\* C29's case: Execute has returned after running three sub-handlers, the
\* first two of different factories
MacroExecutesFifoWitness ==
    /\ macro.pc = "done"
    /\ Len(macro.executed) = 3
    /\ macro.added[1] # macro.added[2]
    /\ nCalls = 4

\* C30: when Execute returns the list of sub-handler factories is empty, and an
\* Execute call on an instance that has run and was not re-populated runs no
\* sub-handler.
MacroExecuteDrains ==
    /\ macro.pc = "done" => macro.SubCommands = <<>>
    /\ macro.rerun => macro.executed = <<>> /\ macro.pc \in {"loop", "done"}

\* C30's case: Execute has returned for the second time, the first time after
\* running two sub-handlers, the second time on the drained instance
MacroExecuteDrainsWitness ==
    /\ macro.pc = "done"
    /\ macro.rerun
    /\ nCalls = 4

\* the names and identities a caller may pass, registered or not
AnyNames == Names \cup {"Z"}
AnyContexts == RawContexts \cup Mediators \cup SameNameMediators \cup {ControllerContext, "stranger"}

\* C31: NotifyObservers for a name without an observer list invokes nothing
\* and leaves the View as it is, and RemoveObserver(name, identity) for a name
\* without a list or an identity that no Observer of the list has leaves the
\* observer map as it is: every key, and every list's length, content and
\* order. Checked for every call the program could make in a reachable state
\* and for the calls it made.
LookupMissIsNoOp ==
    /\ \A name \in AnyNames, context \in AnyContexts :
        (CanLock(view.observerMapMutex) /\ CountOf(ListOf(view.observerMap, name), context) = 0) =>
            LET r == RemoveObserver(view, name, context)
            IN  /\ r.view = view
                /\ r.blocked = NoLock
    /\ \A name \in AnyNames :
        (CanRLock(view.observerMapMutex) /\ name \notin DOMAIN view.observerMap) =>
            LET r == NotifyObserversBegin(view, name)
            IN  /\ r.observers = <<>>
                /\ r.view = view
    /\ \A i \in 1..Len(lastTrace) :
        (lastTrace[i].op = "RemoveObserver" /\ CountOf(lastTrace[i].pre, lastTrace[i].context) = 0) =>
            lastTrace[i].post = lastTrace[i].pre
    /\ \A i \in NotifyFrames : stack[i].atCall = <<>> =>
        /\ stack[i].observers = <<>>
        /\ stack[i].invoked = <<>>

\* C31's case: RemoveObserver has just been called with an identity that none of
\* the two Observers of the list has
LookupMissIsNoOpWitness ==
    /\ Len(lastTrace) = 1
    /\ lastTrace[1].op = "RemoveObserver"
    /\ Len(lastTrace[1].pre) = 2
    /\ CountOf(lastTrace[1].pre, lastTrace[1].context) = 0
    /\ ListOf(view.observerMap, lastTrace[1].name) = lastTrace[1].pre
\* the goroutine is about to run the hook, inside one of the calls
AtHook(t, hooks, ops) ==
    /\ NextStep(t).i = "Hook"
    /\ NextStep(t).on \in hooks
    /\ threads[t].call.op \in ops

\* C32: a mediator's OnRegister and OnRemove may call RegisterMediator,
\* RemoveMediator, RetrieveMediator or HasMediator of the same View and the
\* call returns: the goroutine that is about to run the hook holds no mutex of
\* the View, so the call the hook makes does not wait for its own caller.
MediatorHookHoldsNoViewLock ==
    \A t \in Threads :
        AtHook(t, {"OnRegister", "OnRemove"}, {"RegisterMediator", "RemoveMediator"}) =>
            /\ ~Holds(t, "mediatorMapMutex")
            /\ ~Holds(t, "observerMapMutex")

\* C33: a proxy's OnRegister and OnRemove may call RetrieveProxy, HasProxy,
\* RegisterProxy or RemoveProxy of the same Model and the call returns: when
\* the hook is about to run, the proxyMapMutex that each of these calls takes
\* first is not held by the goroutine that would wait for it.
ProxyHookCanEnterModel ==
    \A t \in Threads :
        AtHook(t, {"OnRegister", "OnRemove"}, {"RegisterProxy", "RemoveProxy"}) =>
            \/ CanLock(model.proxyMapMutex)
            \/ ~Holds(t, "proxyMapMutex")

\* C34: a command's Execute, run by ExecuteCommand, may call HasCommand (or
\* send a notification that ends in ExecuteCommand) on the same Controller and
\* the call returns, also while another goroutine waits in RegisterCommand or
\* RemoveCommand for the write lock: whenever the handler is about to run, the
\* RLock its call starts with is not kept out by a writer that waits for the
\* read lock the handler's own ExecuteCommand holds.
HandlerCanReadCommandMap ==
    \A t \in Threads :
        AtHook(t, {"Execute"}, {"ExecuteCommand"}) =>
            ~(/\ Holds(t, "commandMapMutex")
              /\ ~CanRLock(controller.commandMapMutex)
              /\ \E u \in Threads \ {t} : NextStep(u) = ILockWait("commandMapMutex"))
\* the goroutine is in RegisterMediator(m), has stored m and not yet called m.OnRegister
BeforeOnRegister(t, m) ==
    /\ threads[t].call = Call("RegisterMediator", GetMediatorName(m), m)
    /\ InSeq(threads[t].code, IHook("OnRegister"))
    /\ NextStep(t).i # "Read"

\* C36: a mediator gets no HandleNotification before its OnRegister: while a
\* goroutine in RegisterMediator(m) has yet to call m.OnRegister, no broadcast
\* of another goroutine has invoked an Observer of m.
OnRegisterBeforeHandleNotification ==
    \A t \in Threads, m \in Mediators :
        BeforeOnRegister(t, m) =>
            \A u \in Threads \ {t} : CountOf(threads[u].invoked, m) = 0
\* the calls of the hook among the calls a call made
HookCalls(trace, hook) == {i \in 1..Len(trace) : trace[i].op = hook}

\* C38: RegisterProxy(p) over another proxy stored under p's name calls no
\* OnRemove, least of all that of the replaced proxy, and calls OnRegister of p
\* once and no method of any other proxy; afterwards no name retrieves the
\* replaced proxy, and RemoveProxy of the name removes and returns p. Checked
\* for every RegisterProxy the program could make and for the one it made.
ReplacedProxyIsDropped ==
    /\ \A proxy \in Proxies :
        LET proxyName == GetProxyName(proxy)
            replaced == RetrieveProxy(model, proxyName)
            r == RegisterProxy(model, proxy)
            removal == RemoveProxy(r.model, proxyName)
        IN  (CanLock(model.proxyMapMutex) /\ replaced \notin {Nil, proxy}) =>
                /\ HookCalls(r.trace, "OnRemove") = {}
                /\ Cardinality(HookCalls(r.trace, "OnRegister")) = 1
                /\ \A i \in 1..Len(r.trace) : r.trace[i].context = proxy
                /\ RetrieveProxy(r.model, proxyName) = proxy
                /\ \A other \in ProxyNames : RetrieveProxy(r.model, other) # replaced
                /\ removal.proxy = proxy
                /\ \A i \in 1..Len(removal.trace) : removal.trace[i].context = proxy
    /\ (lastTrace # <<>> /\ lastTrace[1].op = "InitializeNotifier" /\ lastTrace[1].stored \notin {Nil, lastTrace[1].context}) =>
        /\ HookCalls(lastTrace, "OnRemove") = {}
        /\ Cardinality(HookCalls(lastTrace, "OnRegister")) = 1
        /\ \A i \in 1..Len(lastTrace) : lastTrace[i].context = lastTrace[1].context
        /\ RetrieveProxy(model, lastTrace[1].name) = lastTrace[1].context
        /\ \A other \in ProxyNames : RetrieveProxy(model, other) # lastTrace[1].stored

\* C38's case: RegisterProxy has just replaced a proxy by another one of the
\* same name, a proxy of another name being stored too
ReplacedProxyIsDroppedWitness ==
    /\ lastTrace # <<>>
    /\ lastTrace[1].op = "InitializeNotifier"
    /\ lastTrace[1].stored \notin {Nil, lastTrace[1].context}
    /\ Cardinality(DOMAIN model.proxyMap) = 2
\* the goroutine's RegisterMediator found the name free: it stores its
\* mediator, registers the mediator's Observers and calls the mediator's OnRegister
Registering(t) ==
    /\ threads[t].call.op = "RegisterMediator"
    /\ threads[t].val = Nil
    /\ \A i \in 1..Len(threads[t].code) : threads[t].code[i].i # "Read"
\* the goroutine's RegisterMediator found the name taken and does nothing
Declined(t) ==
    /\ threads[t].call.op = "RegisterMediator"
    /\ threads[t].val # Nil

\* C37: of the RegisterMediator calls that concurrent goroutines make with
\* different mediators of one unregistered name, one takes effect: at most
\* one goroutine at a time, and only with the name free or holding its own
\* mediator, stores, registers Observers and calls OnRegister; the lists never
\* hold more than the one Observer per interest of the stored mediator; a call
\* that found the name taken writes nothing, calls no hook and just unlocks.
OneSameNameRegistration ==
    /\ \A t \in Threads : Registering(t) =>
        /\ \A u \in Threads \ {t} : ~Registering(u)
        /\ RetrieveMediator(view, threads[t].call.name) \in {Nil, threads[t].call.arg}
        /\ Holds(t, "mediatorMapMutex")
    /\ \A t \in Threads : Declined(t) =>
        /\ threads[t].code = <<IUnlock("mediatorMapMutex")>>
        /\ RetrieveMediator(view, threads[t].call.name) = threads[t].val
    /\ Cardinality(DOMAIN view.mediatorMap) <= 1
    /\ \A name \in DOMAIN view.observerMap :
        /\ Len(view.observerMap[name]) = 1
        /\ \E m \in SameNameMediators :
            /\ view.observerMap[name] = <<MediatorObserver(m)>>
            /\ IsRegistered(m)
            /\ InSeq(ListNotificationInterests(m), name)

\* C37's case: one goroutine has registered its mediator and returned, the
\* other one, in its first call, has found the name taken by that mediator
\* and not by its own
OneSameNameRegistrationWitness ==
    \E t, u \in Threads :
        /\ t # u
        /\ threads[t].call = NoCall
        /\ threads[t].calls = 1
        /\ threads[u].calls = 1
        /\ Declined(u)
        /\ threads[u].val # threads[u].call.arg
        /\ ListOf(view.observerMap, "X") = <<MediatorObserver(threads[u].val)>>
\* the goroutine is in Controller.ExecuteCommand and has a command function: it
\* is about to make the command, or the command executes
HandlerRuns(t) ==
    /\ threads[t].call.op = "ExecuteCommand"
    /\ InSeq(threads[t].code, IHook("Execute"))

\* C35: once RemoveCommand(X) has deleted X's entry, and so after it has
\* returned, until a RegisterCommand(X) stores one again, no goroutine makes
\* or executes a command for X, be it in an ExecuteCommand it called itself or
\* in one that the loop of its NotifyObservers called for a working array
\* copied before the removal: a command runs only while the command map has
\* its name and no RegisterCommand or RemoveCommand has the map's write lock.
RemovedCommandStartsNowhere ==
    \A t \in Threads : HandlerRuns(t) =>
        /\ HasCommand(controller, threads[t].call.name)
        /\ Holds(t, "commandMapMutex")
        /\ \A u \in Threads \ {t} : ~(threads[u].call.op \in {"RegisterCommand", "RemoveCommand"} /\ Holds(u, "commandMapMutex"))

\* C35's case: a goroutine has registered and removed the command and
\* returned; the other one's broadcast had copied the list with the
\* Controller's Observer before, its loop has called ExecuteCommand, which
\* has found no command and is about to return
RemovedCommandStartsNowhereWitness ==
    \E t, u \in Threads :
        /\ t # u
        /\ threads[t].call = NoCall
        /\ threads[t].calls = 2
        /\ threads[u].calls = 1
        /\ threads[u].caller # <<>>
        /\ threads[u].invoked = <<ControllerObserver>>
        /\ threads[u].call.op = "ExecuteCommand"
        /\ threads[u].code = <<IRUnlock("commandMapMutex")>>
        /\ threads[u].val = Nil
        /\ ~HasCommand(controller, "X")
        /\ "X" \notin DOMAIN view.observerMap
\* the mutexes of the three registries
RegistryMutexes == {"commandMapMutex", "mediatorMapMutex", "proxyMapMutex"}
\* the calls that take their registry's mutex with RLock
ReadLockingCalls == {"ExecuteCommand", "HasCommand", "RetrieveMediator", "HasMediator", "RetrieveProxy", "HasProxy"}
\* the goroutine holds the mutex, taken with RLock (with Lock)
HoldsToRead(t, mu) == Holds(t, mu) /\ threads[t].call.op \in ReadLockingCalls
HoldsToWrite(t, mu) == Holds(t, mu) /\ threads[t].call.op \notin ReadLockingCalls

\* C39: a panic in a command factory or a command's Execute inside
\* ExecuteCommand, or in OnRegister or OnRemove inside RegisterMediator,
\* RemoveMediator, RegisterProxy or RemoveProxy, releases the registry's mutex
\* on its way out. Whatever panics have happened, a registry mutex is read-held
\* exactly as often as there are goroutines inside a call between its RLock
\* and RUnlock, and write-held or claimed only while a goroutine is inside a
\* call between its Lock and Unlock or waits in Lock: a mutex that no call in
\* flight uses is free.
AbortReleasesRegistryLock ==
    \A mu \in RegistryMutexes :
        /\ MutexOf(mu).r = Cardinality({t \in Threads : HoldsToRead(t, mu)})
        /\ MutexOf(mu).w <=> \E t \in Threads : HoldsToWrite(t, mu) \/ NextStep(t) = ILockWait(mu)

\* C39's case: the last panic was that of a hook in a goroutine's
\* RegisterMediator, RemoveMediator, RegisterProxy or RemoveProxy; that
\* goroutine has left the call, and the other goroutine has taken the same
\* mutex since and holds it
AbortReleasesRegistryLockWitness ==
    /\ lastTrace # <<>>
    /\ lastTrace[1].op = "Panic"
    /\ lastTrace[1].name \in {"RegisterMediator", "RemoveMediator", "RegisterProxy", "RemoveProxy"}
    /\ threads[lastTrace[1].context].call = NoCall
    /\ \E u \in Threads \ {lastTrace[1].context} :
        HoldsToWrite(u, DeferredUnlock(Call(lastTrace[1].name, Nil, Nil))[1].on)

\* the same for a panic inside ExecuteCommand: the other goroutine's
\* RegisterCommand has the write lock of the command map afterwards
AbortInExecuteReleasesLockWitness ==
    /\ lastTrace # <<>>
    /\ lastTrace[1].op = "Panic"
    /\ lastTrace[1].name = "ExecuteCommand"
    /\ threads[lastTrace[1].context].call = NoCall
    /\ \E u \in Threads \ {lastTrace[1].context} :
        /\ threads[u].call.op = "RegisterCommand"
        /\ HoldsToWrite(u, "commandMapMutex")
=============================================================================
